---- MODULE Spec2Model ----
(***************************************************************************)
(* Healthcare surge backend: the reading cache (dataService), the          *)
(* scheduler (aqiScheduler), the retry executor (geminiRetry) and the      *)
(* outbreak reconciler (pandemicService), as state machines.               *)
(*                                                                         *)
(* Time is the wall clock in whole hours.  A timestamp is the value of the *)
(* clock when `new Date()` / `Date.now()` is evaluated.                    *)
(***************************************************************************)
EXTENDS Integers, Sequences, FiniteSets, Bags, TLC

(* ------------------------------ bounds -------------------------------- *)
\* last hour of the clock
MaxTime == 9
\* refresh calls made by request handlers that may be in flight together
MaxApiCalls == 1
\* documents the two reading collections hold together before request
\* handlers stop refreshing
MaxReadings == 3
\* documents stored or under way when a scheduler tick may still start
MaxBacklog == 1

(* ------------------------- program constants -------------------------- *)
\* `if (ageHours < 6)`
FRESH_HOURS == 6
\* cron '0 */6 * * *'
CRON_HOURS == 6

\* hours that pass in one step of the clock: ages of 0, half the threshold,
\* the threshold and more are all met
ClockStep == FRESH_HOURS \div 2
\* a refresh call (HTTP round trips and one insert) crosses at most one step
MaxCallHours == ClockStep

Signals == {"aqi", "weather"}

\* city names a caller may pass: "Delhi" is a key of cityStateMap, "" is the
\* empty name;  "Goa" (in the scheduler's list) is no key of cityStateMap
Locations == {"Delhi", ""}

\* values of SCHEDULED_CITIES.split(',').map(c => c.trim()); a trailing comma
\* in the variable yields an empty name
CityLists == { <<"Delhi", "Goa">>, <<"Delhi", "">> }

\* the longest configured list
MaxCities == 2

VARIABLES
  now,        \* wall clock, hours
  apiKey,     \* process.env: is the provider key of each signal set
  cities,     \* the scheduler's configured list
  readings,   \* AqiReading / WeatherReading collections: bags of documents
  calls,      \* fetchAndStoreAqi / fetchAndStoreWeather invocations
  sched,      \* the cron callback
  retry,      \* one withRetry(apiCall, options) execution
  pandemics,  \* the PandemicData collection: a set of documents
  nextId,     \* the _id of the next document inserted
  recon,      \* analyzeAndCreatePandemicData invocations
  trial,      \* two observations of a disease reconciled in both orders
  scored,     \* one generatePrediction run: features, score, document saved
  predictions, \* the Prediction collection: a set of documents
  req,        \* one request handler of predictionRoutes and its generatePrediction
  counted     \* one calculatePatientCountFromPandemics evaluation

readingVars == <<now, apiKey, cities, readings, calls, sched>>
outbreakVars == <<pandemics, nextId, recon>>
scoreVars == <<scored, predictions>>
requestVars == <<req, counted>>

vars == <<readingVars, retry, outbreakVars, trial, scoreVars, requestVars>>

(* --------------------------- withRetry ------------------------------- *)
\* bounds: the largest maxRetries tried, the most failures of a closure
MaxRetriesTried == 3
MaxFails == 4

\* Math.random() * 2000
JITTER_MS == 2000
\* defaults and the options every caller passes (ms)
INITIAL_DELAY == 2000
MAX_DELAY == 60000
BACKOFF_MULTIPLIER == 2

Min(a, b) == IF a <= b THEN a ELSE b

\* no RetryInfo detail (or one without retryDelay)
NoHint == <<>>
Digits == {"0", "1", "2", "3", "4", "5", "6", "7", "8", "9"}
DigitValue(ch) ==
  CASE ch = "0" -> 0 [] ch = "1" -> 1 [] ch = "2" -> 2 [] ch = "3" -> 3
    [] ch = "4" -> 4 [] ch = "5" -> 5 [] ch = "6" -> 6 [] ch = "7" -> 7
    [] ch = "8" -> 8 [] ch = "9" -> 9

\* delayStr.replace('s', ''): the string without its first "s"
RECURSIVE DropFirstS(_)
DropFirstS(str) ==
  IF str = <<>> THEN <<>>
  ELSE IF Head(str) = "s" THEN Tail(str)
  ELSE <<Head(str)>> \o DropFirstS(Tail(str))

\* parseInt: the value of the leading digits, NaN when there are none
RECURSIVE LeadingDigits(_)
LeadingDigits(str) ==
  IF str = <<>> \/ Head(str) \notin Digits THEN <<>>
  ELSE <<Head(str)>> \o LeadingDigits(Tail(str))
RECURSIVE DecimalValue(_)
DecimalValue(ds) ==
  IF ds = <<>> THEN 0
  ELSE 10 * DecimalValue(SubSeq(ds, 1, Len(ds) - 1)) + DigitValue(ds[Len(ds)])
parseInt(str) ==
  LET ds == LeadingDigits(str)
  IN IF ds = <<>> THEN [nan |-> TRUE, n |-> 0] ELSE [nan |-> FALSE, n |-> DecimalValue(ds)]

\* getRetryDelay(error): null, NaN or milliseconds
Null == [null |-> TRUE, nan |-> FALSE, n |-> 0]
getRetryDelay(error) ==
  IF error.hint = NoHint THEN Null
  ELSE LET seconds == parseInt(DropFirstS(error.hint))
       IN [null |-> FALSE, nan |-> seconds.nan, n |-> seconds.n * 1000]

\* `!retryDelay`: null, NaN and 0 are falsy
Falsy(x) == x.null \/ x.nan \/ x.n = 0

\* an error the closure throws: status (0: none), the words its message
\* includes, the retryDelay string of its RetryInfo detail
ErrorKinds ==
  { [status |-> 429, words |-> {}, hint |-> NoHint],
    [status |-> 429, words |-> {"quota"}, hint |-> <<"3", "s">>],
    [status |-> 429, words |-> {"429"}, hint |-> <<"7", "0", "s">>],
    [status |-> 0, words |-> {"Resource exhausted"}, hint |-> NoHint],
    [status |-> 503, words |-> {}, hint |-> NoHint],
    [status |-> 503, words |-> {}, hint |-> <<"0", "s">>],
    [status |-> 500, words |-> {}, hint |-> <<"s">>],
    [status |-> 0, words |-> {"timeout"}, hint |-> NoHint],
    [status |-> 0, words |-> {"fetch"}, hint |-> NoHint],
    [status |-> 400, words |-> {}, hint |-> NoHint],
    [status |-> 600, words |-> {"invalid"}, hint |-> <<"3", "s">>] }

NoError == [status |-> 0, words |-> {}, hint |-> NoHint, seq |-> 0]

\* error.status === 429 || message includes '429' | 'quota' | 'rate limit' |
\* 'Resource exhausted'
isRateLimit(error) ==
  \/ error.status = 429
  \/ error.words \cap {"429", "quota", "rate limit", "Resource exhausted"} # {}

\* isRateLimit || 5xx || message includes 'timeout' | 'fetch'
isRetryableAlways(error) == TRUE
isRetryableNo5xx(error) ==
  \/ isRateLimit(error)
  \/ error.words \cap {"timeout", "fetch"} # {}
isRetryable(error) ==
  \/ isRateLimit(error)
  \/ (error.status >= 500 /\ error.status < 600)
  \/ error.words \cap {"timeout", "fetch"} # {}

\* `attempt >= maxRetries`: no retry is left
LastAttemptEarly(attempt, maxRetries) == attempt + 1 >= maxRetries
LastAttempt(attempt, maxRetries) == attempt >= maxRetries

\* the delay to sleep: the hint or the backoff delay (times 1.5 for a rate
\* limit), plus the jitter, capped
retryDelayFor(error, delay, jitter, maxDelay) ==
  LET hinted == getRetryDelay(error)
      base == IF isRateLimit(error) /\ Falsy(hinted) THEN (delay * 3) \div 2
              ELSE IF Falsy(hinted) THEN delay
              ELSE hinted.n
  IN Min(base + jitter, maxDelay)

\* delay = Math.min(delay * backoffMultiplier, maxDelay)
nextDelay(delay, opts) == Min(delay * opts.backoffMultiplier, opts.maxDelay)

\* values Math.random() * 2000 takes
Jitters == {0, 1000, JITTER_MS - 1}

Options ==
  [maxRetries : 0..MaxRetriesTried, initialDelay : {INITIAL_DELAY},
   maxDelay : {5000, MAX_DELAY}, backoffMultiplier : {BACKOFF_MULTIPLIER}]

\* pc: idle | calling (awaiting apiCall()) | sleeping | returned | thrown
\* fails: failures the closure makes before it succeeds; failsLeft: those to
\* come; value: what it returns then.  History, for the properties only:
\* jitter (the random number drawn), sleeps, allRetryable (every failure so
\* far was a rate limit, a 5xx, a timeout or a transport error)
RetryIdle ==
  [pc |-> "idle", opts |-> [maxRetries |-> 0, initialDelay |-> 0, maxDelay |-> 0,
                            backoffMultiplier |-> 0],
   fails |-> 0, failsLeft |-> 0, value |-> "", attempt |-> 0, delay |-> 0,
   nCalls |-> 0, lastError |-> NoError, thrown |-> NoError, result |-> "",
   slept |-> 0, jitter |-> 0, sleeps |-> 0, allRetryable |-> TRUE]

\* a rate-limit signal, a 5xx status, or a message that mentions 'timeout'
\* or 'fetch'
RetryableFailure(error) ==
  \/ error.status = 429
  \/ error.words \cap {"429", "quota", "rate limit", "Resource exhausted"} # {}
  \/ error.status \in 500..599
  \/ "timeout" \in error.words
  \/ "fetch" \in error.words

(* ------------------------ outbreak reconciler -------------------------- *)
\* bounds: last hour of the reconciler's clock, invocations that may exist
\* together, detections in one Gemini answer, documents the collection and
\* the new diseases of an answer may number together when a reconciliation
\* starts
MaxOutbreakTime == 36
MaxPipelines == 2
MaxDetected == 2
MaxRecords == 2
\* detections in one Gemini answer when reconciliations overlap
MaxDetectedConc == 1
\* last hour at which the clock moves when reconciliations overlap
MaxConcTime == 3

\* `Date.now() - 24 * 60 * 60 * 1000`
DEDUP_HOURS == 24
\* `Date.now() - 7 * 24 * 60 * 60 * 1000`
PURGE_HOURS == 7 * 24
\* `if (surgeProbability < 40) return []`
SURGE_THRESHOLD == 40
\* transmissionRate: { min: 0, max: 10 }
MAX_TRANSMISSION == 10
\* transmission rates are kept in hundredths
MaxRate == 100 * MAX_TRANSMISSION
\* severity: { enum: [...] }
SEVERITIES == {"low", "moderate", "high", "critical"}

\* half the window
OutbreakStep == DEDUP_HOURS \div 2
\* the hours at which reconciliations run: ages of 0 and 3 hours, of the
\* window and of more than the window are all met
OutbreakTimes ==
  {t \in {0, 3, DEDUP_HOURS, DEDUP_HOURS + OutbreakStep} : t <= MaxOutbreakTime}

Regions == {"Delhi", "Mumbai"}
Surges == {30, SURGE_THRESHOLD, 75}
Pipelines == 1..MaxPipelines

\* an element of geminiAnalysis.detectedPandemics; 0, "" and <<>> stand for
\* an absent field; transmissionRate is in hundredths
Detections ==
  { [diseaseName |-> "Influenza", activeCases |-> 80, newCasesLast24h |-> 10,
     severity |-> "high", transmissionRate |-> 250,
     requiredMedicines |-> <<"Oseltamivir", "Paracetamol">>],
    [diseaseName |-> "Influenza", activeCases |-> 50, newCasesLast24h |-> 0,
     severity |-> "", transmissionRate |-> 0, requiredMedicines |-> <<>>],
    [diseaseName |-> "Dengue", activeCases |-> 0, newCasesLast24h |-> 20,
     severity |-> "moderate", transmissionRate |-> 1200,
     requiredMedicines |-> <<"Paracetamol", "Paracetamol">>] }

\* what detectPandemicsWithGemini returns: null, or the parsed answer; an
\* answer may name a disease more than once, with different figures (the same
\* observation reconciled twice is SpecMerge's subject)
NoAnalysis == [ok |-> FALSE, detectedPandemics |-> <<>>]
Analyses ==
  {NoAnalysis} \cup
  { [ok |-> TRUE, detectedPandemics |-> ds] :
      ds \in UNION { {f \in [1..n -> Detections] :
                         \A i, j \in 1..n : f[i] = f[j] => i = j} : n \in 0..MaxDetected } }

NoDoc ==
  [id |-> 0, region |-> "", date |-> 0, diseaseName |-> "", activeCases |-> 0,
   newCases |-> 0, recovered |-> 0, deaths |-> 0, severity |-> "",
   transmissionRate |-> 0, requiredMedicines |-> <<>>, source |-> ""]

\* pc: idle | find (awaiting PandemicData.findOne) | write (awaiting
\*     createPandemicData or existing.save()) | purgeFind (awaiting the
\*     findOne of recent real data) | purge (awaiting deleteMany) | returned
\* todo: detections not yet reconciled; existing: the document findOne gave;
\* pandemicRecords: ids of the documents created; errored: the catch block ran;
\* asked: detectPandemicsWithGemini was called
IdleRecon ==
  [pc |-> "idle", region |-> "", surge |-> 0, todo |-> <<>>, existing |-> NoDoc,
   pandemicRecords |-> <<>>, errored |-> FALSE, asked |-> FALSE]

OutbreakIdle ==
  /\ pandemics = {}
  /\ nextId = 1
  /\ recon = [p \in Pipelines |-> IdleRecon]

Max(a, b) == IF a >= b THEN a ELSE b
\* Math.round(num / den) for num, den > 0
RoundDiv(num, den) == (2 * num + den) \div (2 * den)

\* `date: { $gte: new Date(Date.now() - 24 * 60 * 60 * 1000) }`
InDedupWindowHour(date, t) == date >= t - 1
InDedupWindow(date, t) == date >= t - DEDUP_HOURS

\* the documents PandemicData.findOne({ region, diseaseName, date }) may return
findRecent(region, diseaseName, t) ==
  LET found == {d \in pandemics : d.region = region /\ d.diseaseName = diseaseName
                                    /\ InDedupWindow(d.date, t)}
  IN IF found = {} THEN {NoDoc} ELSE found

\* the argument of createPandemicData
newPandemic(id, region, t, pandemic, surgeProbability) ==
  [id |-> id, region |-> region, date |-> t,
   diseaseName |-> pandemic.diseaseName,
   activeCases |-> Max(0, IF pandemic.activeCases # 0 THEN pandemic.activeCases
                          ELSE RoundDiv(50 * surgeProbability, 100)),
   newCases |-> Max(0, IF pandemic.newCasesLast24h # 0 THEN pandemic.newCasesLast24h
                       ELSE RoundDiv(10 * surgeProbability, 100)),
   recovered |-> RoundDiv((IF pandemic.activeCases # 0 THEN pandemic.activeCases ELSE 50) * 2, 10),
   deaths |-> RoundDiv(IF pandemic.activeCases # 0 THEN pandemic.activeCases ELSE 50, 100),
   severity |-> IF pandemic.severity # "" THEN pandemic.severity
                ELSE IF surgeProbability > 70 THEN "high"
                ELSE IF surgeProbability > 50 THEN "moderate" ELSE "low",
   transmissionRate |-> Min(MaxRate,
                            Max(0, IF pandemic.transmissionRate # 0
                                   THEN pandemic.transmissionRate
                                   ELSE 3 * surgeProbability)),
   requiredMedicines |-> pandemic.requiredMedicines,
   source |-> "gemini-ai"]

\* [...new Set(list)]: the first occurrence of each element, in order
RECURSIVE Distinct(_)
Distinct(list) ==
  IF list = <<>> THEN <<>>
  ELSE LET front == Distinct(SubSeq(list, 1, Len(list) - 1))
           last == list[Len(list)]
       IN IF \E i \in 1..Len(front) : front[i] = last THEN front
          ELSE Append(front, last)

\* the assignments to `existing` in the update branch
mergeLatest(existing, pandemic) ==
  [existing EXCEPT
     !.activeCases = IF pandemic.activeCases # 0 THEN pandemic.activeCases ELSE @,
     !.newCases = IF pandemic.newCasesLast24h # 0 THEN pandemic.newCasesLast24h ELSE @,
     !.severity = IF pandemic.severity # "" THEN pandemic.severity ELSE @,
     !.transmissionRate = IF pandemic.transmissionRate # 0 THEN pandemic.transmissionRate ELSE @,
     !.requiredMedicines = IF Len(pandemic.requiredMedicines) > 0
                           THEN Distinct(@ \o pandemic.requiredMedicines) ELSE @]
mergeSum(existing, pandemic) ==
  [existing EXCEPT !.activeCases = @ + pandemic.activeCases,
                   !.newCases = @ + pandemic.newCasesLast24h]
merge(existing, pandemic) ==
  [existing EXCEPT
     !.activeCases = Max(@, IF pandemic.activeCases # 0 THEN pandemic.activeCases ELSE @),
     !.newCases = Max(@, IF pandemic.newCasesLast24h # 0 THEN pandemic.newCasesLast24h ELSE @),
     !.severity = IF pandemic.severity # "" THEN pandemic.severity ELSE @,
     !.transmissionRate = IF pandemic.transmissionRate # 0 THEN pandemic.transmissionRate ELSE @,
     !.requiredMedicines = IF Len(pandemic.requiredMedicines) > 0
                           THEN Distinct(@ \o pandemic.requiredMedicines) ELSE @]

\* schema validation on save()
valid(doc) ==
  /\ doc.region # ""
  /\ doc.diseaseName # ""
  /\ doc.severity \in SEVERITIES
  /\ doc.transmissionRate \in 0..MaxRate

\* existing.save(): the paths that were modified are written to the stored document
saved(stored, loaded, doc) ==
  [stored EXCEPT
     !.activeCases = IF doc.activeCases # loaded.activeCases THEN doc.activeCases ELSE @,
     !.newCases = IF doc.newCases # loaded.newCases THEN doc.newCases ELSE @,
     !.severity = IF doc.severity # loaded.severity THEN doc.severity ELSE @,
     !.transmissionRate = IF doc.transmissionRate # loaded.transmissionRate
                          THEN doc.transmissionRate ELSE @,
     !.requiredMedicines = IF doc.requiredMedicines # loaded.requiredMedicines
                           THEN doc.requiredMedicines ELSE @]

\* the update branch for one detection: the document stored afterwards, and
\* whether save() succeeded (nothing is saved when nothing was modified)
updateOf(stored, loaded, pandemic) ==
  LET doc == merge(loaded, pandemic)
  IN IF doc = loaded THEN [ok |-> TRUE, doc |-> stored]
     ELSE IF ~valid(doc) THEN [ok |-> FALSE, doc |-> stored]
     ELSE [ok |-> TRUE, doc |-> saved(stored, loaded, doc)]

\* detections reconciled pairwise: those above, and three more
Observations ==
  Detections \cup
  { [diseaseName |-> "Influenza", activeCases |-> 60, newCasesLast24h |-> 25,
     severity |-> "moderate", transmissionRate |-> 150,
     requiredMedicines |-> <<"Paracetamol", "Zanamivir">>],
    [diseaseName |-> "Dengue", activeCases |-> 30, newCasesLast24h |-> 0,
     severity |-> "critical", transmissionRate |-> 400,
     requiredMedicines |-> <<"ORS", "ORS">>],
    [diseaseName |-> "Dengue", activeCases |-> 0, newCasesLast24h |-> 0,
     severity |-> "", transmissionRate |-> 0, requiredMedicines |-> <<>>] }

NoObservation ==
  [diseaseName |-> "", activeCases |-> 0, newCasesLast24h |-> 0, severity |-> "",
   transmissionRate |-> 0, requiredMedicines |-> <<>>]

\* observations a and b of one disease reach the reconciler of a region, in a
\* first collection as a then b, in a second one as b then a.
\* pc: idle | chosen | first (one reconciled in each) | second (both)
\* one, two: the document of the disease after the first reconciliation;
\* ab, ba: after the second
NoTrial ==
  [pc |-> "idle", region |-> "", surge |-> 0, a |-> NoObservation, b |-> NoObservation,
   one |-> NoDoc, two |-> NoDoc, ab |-> NoDoc, ba |-> NoDoc]

(* ----------------------------- risk scorer ----------------------------- *)
\* bound: documents in the Prediction collection before generatePrediction
\* stops being run
MaxPredictions == 2

\* `let probability = 20`
BASE_PROBABILITY == 20
\* `baselineAdmissions: 50`
BASELINE_ADMISSIONS == 50
\* surgeProbability: { min: 0, max: 100 }
MAX_PROBABILITY == 100

\* feature records: values at, just above and away from every threshold;
\* festivalMultiplier includes a negative and a large value
Features ==
  [aqi : {50, 51, 100, 101, 150, 151, 180},
   temperature : {22, 35, 36},
   humidity : {40, 80, 81},
   precipitation : {0, 5, 6},
   admissionsLast7dAvg : {50, 60, 61},
   baselineAdmissions : {BASELINE_ADMISSIONS},
   isFestival : BOOLEAN,
   festivalMultiplier : {-3, 0, 2, 9}]

\* the features generatePrediction builds: `isFestival: false,
\* festivalMultiplier: 0`
BuiltFeatures == {f \in Features : ~f.isFestival /\ f.festivalMultiplier = 0}

calculateSurgeProbabilityUnclamped(features) ==
  LET afterAqi == BASE_PROBABILITY
        + (IF features.aqi > 150 THEN 25
           ELSE IF features.aqi > 100 THEN 15
           ELSE IF features.aqi > 50 THEN 5 ELSE 0)
      afterWeather == afterAqi
        + (IF features.temperature > 35 THEN 15 ELSE 0)
        + (IF features.humidity > 80 THEN 10 ELSE 0)
        + (IF features.precipitation > 5 THEN 5 ELSE 0)
      afterAdmissions == afterWeather
        + (IF 10 * features.admissionsLast7dAvg > 12 * features.baselineAdmissions
           THEN 20 ELSE 0)
      probability == afterAdmissions
        + (IF features.isFestival THEN features.festivalMultiplier * 10 ELSE 0)
  IN probability

calculateSurgeProbabilityInclusive(features) ==
  LET afterAqi == BASE_PROBABILITY
        + (IF features.aqi >= 150 THEN 25
           ELSE IF features.aqi > 100 THEN 15
           ELSE IF features.aqi > 50 THEN 5 ELSE 0)
      afterWeather == afterAqi
        + (IF features.temperature > 35 THEN 15 ELSE 0)
        + (IF features.humidity > 80 THEN 10 ELSE 0)
        + (IF features.precipitation > 5 THEN 5 ELSE 0)
      afterAdmissions == afterWeather
        + (IF 10 * features.admissionsLast7dAvg > 12 * features.baselineAdmissions
           THEN 20 ELSE 0)
      probability == afterAdmissions
        + (IF features.isFestival THEN features.festivalMultiplier * 10 ELSE 0)
  IN Min(100, Max(0, probability))

calculateSurgeProbability(features) ==
  LET afterAqi == BASE_PROBABILITY
        + (IF features.aqi > 150 THEN 25
           ELSE IF features.aqi > 100 THEN 15
           ELSE IF features.aqi > 50 THEN 5 ELSE 0)
      afterWeather == afterAqi
        + (IF features.temperature > 35 THEN 15 ELSE 0)
        + (IF features.humidity > 80 THEN 10 ELSE 0)
        + (IF features.precipitation > 5 THEN 5 ELSE 0)
      afterAdmissions == afterWeather
        + (IF 10 * features.admissionsLast7dAvg > 12 * features.baselineAdmissions
           THEN 20 ELSE 0)
      probability == afterAdmissions
        + (IF features.isFestival THEN features.festivalMultiplier * 10 ELSE 0)
  IN Min(100, Max(0, probability))

\* new Prediction({ region, date, surgeProbability, inputSnapshot: features, ... })
newPrediction(region, date, surgeProbability, features) ==
  [region |-> region, date |-> date, surgeProbability |-> surgeProbability,
   inputSnapshot |-> features]

\* surgeProbability: { required: true, min: 0, max: 100 }
validPrediction(doc) == doc.surgeProbability \in 0..MAX_PROBABILITY

\* pc: idle | built (features are built) | scored | saved (prediction.save()
\*     returned) | failed (it threw)
NoScore == [pc |-> "idle", region |-> "", features |-> {}, surgeProbability |-> 0]

ScoreIdle ==
  /\ scored = NoScore
  /\ predictions = {}

(* --------------------------- request handlers ------------------------- *)
\* pc: idle | routeAqi, routeWeather (the route awaits a forced refresh) |
\*     generate (generatePrediction awaits the latest readings) | needWeather,
\*     needAqi (it awaits a forced refresh) | agent (runOperationsAgent) |
\*     lookups (getDiseasesForConditions, getMedicinesForDiseases) |
\*     reconcile (analyzeAndCreatePandemicData) | save (prediction.save()) |
\*     respond (GET /latest reads the latest readings) | done | failed
\* route: predict | latest | advice;  found: id of the Prediction
\* getLatestPrediction gave (0: null);  aqi, weather: the readings in hand;
\* agent, lookups: "json" (parsed) or "text" (fallback);  error: what made
\* generatePrediction throw;  status: the HTTP status sent.
\* History, for the properties only: aqiTried, weatherTried (a provider fetch
\* of the signal was started in this request), generated (generatePrediction
\* was called), inserted (id of the Prediction it saved)
NoRequest ==
  [pc |-> "idle", route |-> "", city |-> "", date |-> 0, found |-> FALSE, foundDate |-> 0,
   aqi |-> [source |-> "none", location |-> "", timestamp |-> 0],
   weather |-> [source |-> "none", location |-> "", timestamp |-> 0],
   surge |-> 0, count |-> 0, agent |-> "", lookups |-> "", error |-> "", status |-> 0,
   aqiTried |-> FALSE, weatherTried |-> FALSE, generated |-> FALSE, inserted |-> 0]

\* pc: idle | called | returned
NoCount == [pc |-> "idle", surgeProbability |-> 0, totalActiveCases |-> 0, result |-> 0]

RequestIdle ==
  /\ req = NoRequest
  /\ counted = NoCount

(* ----------------------------- the calls ------------------------------ *)
SchedSlots == 1..(2 * MaxCities)
ApiSlots == (2 * MaxCities + 1)..(2 * MaxCities + MaxApiCalls)
CallIds == SchedSlots \cup ApiSlots

\* pc: idle | cache (awaiting findOne) | fetch, fetch2 (awaiting the provider)
\*     | save (awaiting reading.save()) | done (returned) | failed (threw)
\*     | looked (the caller's getLatest after the return has answered)
\* nCalls: fetch() calls issued; wrote: documents saved; result: the reading
\* returned; timestamp: `new Date()` of the document under construction;
\* elapsed: hours in flight; latest: what getLatest returned.
\* History, for the properties only: expect (the most recent readings of the
\* location at the cache lookup, when younger than the threshold), waited
\* (the clock moved between the return and the caller's getLatest)
\* null: no document
NoReading == [location |-> "", timestamp |-> 0, source |-> "none"]

IdleCall ==
  [pc |-> "idle", sig |-> "aqi", loc |-> "", force |-> FALSE, nCalls |-> 0,
   wrote |-> 0, result |-> NoReading, timestamp |-> 0, elapsed |-> 0,
   latest |-> NoReading, expect |-> {}, waited |-> FALSE]

Settled(call) == call.pc \in {"done", "failed"}
InFlight(call) == call.pc \in {"cache", "fetch", "fetch2", "save"}

\* the documents of a location with the greatest timestamp
MostRecent(coll, location) ==
  {d \in BagToSet(coll) :
     /\ d.location = location
     /\ \A e \in BagToSet(coll) : e.location = location => e.timestamp <= d.timestamp}

\* those of them younger than the freshness threshold at time t
FreshMostRecent(coll, location, t) ==
  {d \in MostRecent(coll, location) : t - d.timestamp < FRESH_HOURS}

TotalReadings == BagCardinality(readings["aqi"]) + BagCardinality(readings["weather"])
Pending == Cardinality({c \in CallIds : InFlight(calls[c])})

\* getCityCoordinates: does the name resolve to a state, and to lat/lon
getCityCoordinates(cityName) ==
  IF cityName = "Delhi" THEN [state |-> TRUE, latlon |-> TRUE]
  ELSE [state |-> FALSE, latlon |-> FALSE]

\* findOne({ location }).sort({ timestamp: -1 }): the documents it may return
\* (one of those of the location with the greatest timestamp), null if none
findLatestOldest(coll, location) ==
  LET mine == {d \in BagToSet(coll) : d.location = location}
  IN IF mine = {} THEN {NoReading}
     ELSE {d \in mine : \A e \in mine : e.timestamp >= d.timestamp}
findLatest(coll, location) ==
  LET mine == {d \in BagToSet(coll) : d.location = location}
  IN IF mine = {} THEN {NoReading}
     ELSE {d \in mine : \A e \in mine : e.timestamp <= d.timestamp}

\* getLatestAqi / getLatestWeather: null for an empty name, else findLatest
getLatest(coll, cityName) ==
  IF cityName = "" THEN {NoReading} ELSE findLatest(coll, cityName)

\* `ageHours < 6`
IsFreshNever(timestamp, t) == FALSE
IsFreshLoose(timestamp, t) == (t - timestamp) <= FRESH_HOURS
IsFresh(timestamp, t) == (t - timestamp) < FRESH_HOURS

\* `if (!forceFetch)` guards the cache lookup
BypassCacheNever(forceFetch) == FALSE
BypassCache(forceFetch) == forceFetch

\* a refresh that saves a reading where it should throw
FailSaves(call) == [call EXCEPT !.pc = "save"]
Fail(call) == [call EXCEPT !.pc = "failed", !.elapsed = 0]

\* from the API-key check to the first fetch(url)
IssueFetch(call) ==
  IF ~apiKey[call.sig] THEN Fail(call)
  ELSE [call EXCEPT !.pc = "fetch", !.nCalls = 1]

\* the synchronous start of fetchAndStoreAqi / fetchAndStoreWeather
Begin(sig, cityName, forceFetch) ==
  LET call == [IdleCall EXCEPT !.sig = sig, !.loc = cityName, !.force = forceFetch]
  IN IF cityName = "" THEN Fail(call)
     ELSE IF ~BypassCache(forceFetch) THEN [call EXCEPT !.pc = "cache"]
     ELSE IssueFetch(call)

\* the continuation after findOne: serve the cached reading or go to the provider
AfterCacheLookup(call, r, t) ==
  LET seen == [call EXCEPT !.expect = FreshMostRecent(readings[call.sig], call.loc, t)]
  IN IF r # NoReading /\ IsFresh(r.timestamp, t)
     THEN [seen EXCEPT !.pc = "done", !.result = r, !.elapsed = 0]
     ELSE IssueFetch(seen)

AqiResponses == {"ok", "nodata", "notSuccess", "httpError", "reject"}
WeatherResponses == {"ok", "codError", "incomplete", "httpError", "reject"}
Responses(sig) == IF sig = "aqi" THEN AqiResponses ELSE WeatherResponses

\* the continuation after the provider answered
AfterResponse(call, resp, t) ==
  LET coords == getCityCoordinates(call.loc)
  IN IF resp = "ok" THEN [call EXCEPT !.pc = "save", !.timestamp = t]
     ELSE IF /\ call.sig = "aqi" /\ call.pc = "fetch" /\ resp = "httpError"
             /\ coords.state /\ coords.latlon
     THEN [call EXCEPT !.pc = "fetch2", !.nCalls = 2]
     ELSE Fail(call)

\* new AqiReading({...}) / new WeatherReading({...})
NewReading(call) ==
  [location |-> call.loc, timestamp |-> call.timestamp,
   source |-> IF call.sig = "aqi" THEN "airvisual" ELSE "openweathermap"]

\* reading.save(): an insert
PersistUpsert(coll, doc) ==
  LET r == CHOOSE d \in findLatest(coll, doc.location) : TRUE
  IN IF r = NoReading THEN coll (+) SetToBag({doc})
     ELSE (coll (-) SetToBag({r})) (+) SetToBag({doc})
Persist(coll, doc) == coll (+) SetToBag({doc})

(* ------------------------------ actions ------------------------------- *)
\* nothing of the reading cache runs
ReadingIdle ==
  /\ now = 0
  /\ apiKey = [s \in Signals |-> TRUE]
  /\ cities = <<"Delhi", "Goa">>
  /\ readings = [s \in Signals |-> EmptyBag]
  /\ calls = [c \in CallIds |-> IdleCall]
  /\ sched = [pc |-> "idle", lastTick |-> 0, successCount |-> 0]

\* the state after server.js has run: both provider keys are set (defaults are
\* filled in when the environment has none), the scheduler is registered and
\* has not fired
Init ==
  /\ now = 0
  /\ apiKey = [s \in Signals |-> TRUE]
  /\ cities \in CityLists
  /\ readings = [s \in Signals |-> EmptyBag]
  /\ calls = [c \in CallIds |-> IdleCall]
  /\ sched = [pc |-> "idle", lastTick |-> 0, successCount |-> 0]
  /\ retry = RetryIdle
  /\ OutbreakIdle
  /\ trial = NoTrial
  /\ ScoreIdle
  /\ RequestIdle

\* a request handler (or any importer of dataService) calls a refresh
Invoke(c, sig, cityName, forceFetch) ==
  /\ calls[c].pc = "idle"
  /\ \A b \in ApiSlots : b < c => calls[b].pc # "idle"
  /\ TotalReadings + Pending < MaxReadings
  /\ calls' = [calls EXCEPT ![c] = Begin(sig, cityName, forceFetch)]
  /\ UNCHANGED <<now, apiKey, cities, readings, sched, retry, outbreakVars, trial, scoreVars, requestVars>>

CacheLookup(c) ==
  /\ calls[c].pc = "cache"
  /\ \E r \in findLatest(readings[calls[c].sig], calls[c].loc) :
       calls' = [calls EXCEPT ![c] = AfterCacheLookup(calls[c], r, now)]
  /\ UNCHANGED <<now, apiKey, cities, readings, sched, retry, outbreakVars, trial, scoreVars, requestVars>>

ProviderResponds(c) ==
  /\ calls[c].pc \in {"fetch", "fetch2"}
  /\ \E resp \in Responses(calls[c].sig) :
       calls' = [calls EXCEPT ![c] = AfterResponse(calls[c], resp, now)]
  /\ UNCHANGED <<now, apiKey, cities, readings, sched, retry, outbreakVars, trial, scoreVars, requestVars>>

Save(c) ==
  /\ calls[c].pc = "save"
  /\ LET sig == calls[c].sig IN
       /\ readings' = [readings EXCEPT ![sig] = Persist(@, NewReading(calls[c]))]
       /\ calls' = [calls EXCEPT ![c].pc = "done", ![c].wrote = 1,
                                 ![c].result = NewReading(calls[c]),
                                 ![c].timestamp = 0, ![c].elapsed = 0]
  /\ UNCHANGED <<now, apiKey, cities, sched, retry, outbreakVars, trial, scoreVars, requestVars>>

\* the caller goes on: `await fetchAndStore...(); latest = await getLatest...(city)`
LookupAfterRefresh(c) ==
  /\ c \in ApiSlots
  /\ calls[c].pc = "done"
  /\ \E r \in getLatest(readings[calls[c].sig], calls[c].loc) :
       calls' = [calls EXCEPT ![c].pc = "looked", ![c].latest = r]
  /\ UNCHANGED <<now, apiKey, cities, readings, sched, retry, outbreakVars, trial, scoreVars, requestVars>>

\* the request ends
Return(c) ==
  /\ c \in ApiSlots
  /\ calls[c].pc \in {"looked", "failed"}
  /\ calls' = [calls EXCEPT ![c] = IdleCall]
  /\ UNCHANGED <<now, apiKey, cities, readings, sched, retry, outbreakVars, trial, scoreVars, requestVars>>

\* the slot of the i-th city's branch for a signal
Slot(i, sig) == 2 * (i - 1) + (IF sig = "aqi" THEN 1 ELSE 2)
Branches == {Slot(i, s) : i \in 1..Len(cities), s \in Signals}

\* .catch(err => null) on every branch
BranchResultNoCatch(call) == IF call.pc = "failed" THEN "rejected" ELSE "reading"
BranchResult(call) == IF call.pc = "failed" THEN "null" ELSE "reading"

\* results.filter(r => r !== null).length
successCount(bs) == Cardinality({b \in bs : BranchResult(calls[b]) # "null"})

\* the cron callback starts: cities.flatMap(city => [fetchAndStoreAqi(city, '',
\* 'India', true).catch(..), fetchAndStoreWeather(city, true).catch(..)])
Tick ==
  /\ sched.pc = "idle"
  /\ now % CRON_HOURS = 0
  /\ sched.lastTick # now
  /\ TotalReadings + Pending <= MaxBacklog
  /\ calls' = [c \in CallIds |->
        IF c \in Branches
        THEN Begin(IF c % 2 = 1 THEN "aqi" ELSE "weather", cities[(c + 1) \div 2], TRUE)
        ELSE calls[c]]
  /\ sched' = [sched EXCEPT !.pc = "waiting", !.lastTick = now]
  /\ UNCHANGED <<now, apiKey, cities, readings, retry, outbreakVars, trial, scoreVars, requestVars>>

\* `await Promise.all(promises)` settles: the count is logged, or the outer
\* catch logs the rejection
TickSettles ==
  /\ sched.pc = "waiting"
  /\ IF \E b \in Branches : Settled(calls[b]) /\ BranchResult(calls[b]) = "rejected"
     THEN sched' = [sched EXCEPT !.pc = "errored"]
     ELSE /\ \A b \in Branches : Settled(calls[b])
          /\ sched' = [sched EXCEPT !.pc = "logged",
                                    !.successCount = successCount(Branches)]
  /\ UNCHANGED <<now, apiKey, cities, readings, calls, retry, outbreakVars, trial, scoreVars, requestVars>>

\* the callback returns; its promises are dropped
TickEnds ==
  /\ sched.pc \in {"logged", "errored"}
  /\ \A b \in Branches : Settled(calls[b])
  /\ calls' = [c \in CallIds |-> IF c \in SchedSlots THEN IdleCall ELSE calls[c]]
  /\ sched' = [sched EXCEPT !.pc = "idle", !.successCount = 0]
  /\ UNCHANGED <<now, apiKey, cities, readings, retry, outbreakVars, trial, scoreVars, requestVars>>

\* time passes; no call stays in flight longer than MaxCallHours
Advance ==
  /\ now + ClockStep <= MaxTime
  /\ \A c \in CallIds : InFlight(calls[c]) => calls[c].elapsed + ClockStep <= MaxCallHours
  /\ sched.pc = "idle"
  /\ now' = now + ClockStep
  /\ calls' = [c \in CallIds |->
        IF InFlight(calls[c]) THEN [calls[c] EXCEPT !.elapsed = @ + ClockStep]
        ELSE IF calls[c].pc \in {"done", "looked"} THEN [calls[c] EXCEPT !.waited = TRUE]
        ELSE calls[c]]
  /\ UNCHANGED <<apiKey, cities, readings, sched, retry, outbreakVars, trial, scoreVars, requestVars>>

\* the cache controller under concurrent callers
Next ==
  \/ \E c \in ApiSlots, sig \in Signals, cityName \in Locations, forceFetch \in BOOLEAN :
       Invoke(c, sig, cityName, forceFetch)
  \/ \E c \in CallIds : CacheLookup(c)
  \/ \E c \in CallIds : ProviderResponds(c)
  \/ \E c \in CallIds : Save(c)
  \/ \E c \in CallIds : LookupAfterRefresh(c)
  \/ \E c \in CallIds : Return(c)
  \/ Advance

Spec == Init /\ [][Next]_vars

\* the server: the scheduler beside one request handler; the routes answer
\* 400 to an empty city name before any refresh
NextSched ==
  \/ \E sig \in Signals, cityName \in Locations \ {""}, forceFetch \in BOOLEAN :
       Invoke(2 * MaxCities + 1, sig, cityName, forceFetch)
  \/ \E c \in CallIds : CacheLookup(c)
  \/ \E c \in CallIds : ProviderResponds(c)
  \/ \E c \in CallIds : Save(c)
  \/ \E c \in CallIds : LookupAfterRefresh(c)
  \/ \E c \in CallIds : Return(c)
  \/ Tick
  \/ TickSettles
  \/ TickEnds
  \/ Advance

SpecSched == Init /\ [][NextSched]_vars

(* ------------------------ withRetry: actions -------------------------- *)
\* withRetry(apiCall, options) is called: lastError undefined, delay = initialDelay
InitRetry ==
  /\ ReadingIdle
  /\ OutbreakIdle
  /\ trial = NoTrial
  /\ ScoreIdle
  /\ RequestIdle
  /\ \E o \in Options, n \in 0..MaxFails, v \in {"text", "json"} :
       retry = [RetryIdle EXCEPT !.pc = "calling", !.opts = o, !.fails = n,
                                 !.failsLeft = n, !.value = v,
                                 !.delay = o.initialDelay]

\* `return await apiCall()` with apiCall fulfilled
ApiCallSucceeds ==
  /\ retry.pc = "calling"
  /\ retry.failsLeft = 0
  /\ retry' = [retry EXCEPT !.pc = "returned", !.nCalls = @ + 1, !.result = retry.value]
  /\ UNCHANGED <<readingVars, outbreakVars, trial, scoreVars, requestVars>>

\* apiCall rejected: the catch block up to `throw error` or `await sleep(retryDelay)`
ApiCallFails ==
  /\ retry.pc = "calling"
  /\ retry.failsLeft > 0
  /\ \E kind \in ErrorKinds, jitter \in Jitters :
       LET error == [status |-> kind.status, words |-> kind.words, hint |-> kind.hint,
                     seq |-> retry.nCalls + 1]
           failed == [retry EXCEPT !.nCalls = @ + 1, !.failsLeft = @ - 1,
                                   !.lastError = error,
                                   !.allRetryable = @ /\ RetryableFailure(error)]
       IN IF LastAttempt(retry.attempt, retry.opts.maxRetries) \/ ~isRetryable(error)
          THEN /\ jitter = 0
               /\ retry' = [failed EXCEPT !.pc = "thrown", !.thrown = error]
          ELSE retry' = [failed EXCEPT !.pc = "sleeping", !.jitter = jitter,
                           !.slept = retryDelayFor(error, retry.delay, jitter,
                                                   retry.opts.maxDelay)]
  /\ UNCHANGED <<readingVars, outbreakVars, trial, scoreVars, requestVars>>

\* the sleep ends: the backoff delay grows, the loop goes on
Wake ==
  /\ retry.pc = "sleeping"
  /\ retry' = [retry EXCEPT !.pc = "calling", !.attempt = @ + 1, !.sleeps = @ + 1,
                            !.delay = nextDelay(retry.delay, retry.opts)]
  /\ UNCHANGED <<readingVars, outbreakVars, trial, scoreVars, requestVars>>

NextRetry == ApiCallSucceeds \/ ApiCallFails \/ Wake

SpecRetry == InitRetry /\ [][NextRetry]_vars

(* --------------------- outbreak reconciler: actions -------------------- *)
\* the disease names of a list of detections
Names(detected) == {detected[i].diseaseName : i \in 1..Len(detected)}

\* the catch block: `return []`
Errored(r) == [r EXCEPT !.pc = "returned", !.errored = TRUE, !.existing = NoDoc, !.todo = <<>>]

\* the loop goes to the next detection, or the function returns pandemicRecords
NextDetection(r) ==
  [r EXCEPT !.todo = Tail(@), !.existing = NoDoc,
            !.pc = IF Len(r.todo) > 1 THEN "find" ELSE "returned"]

\* analyzeAndCreatePandemicData(region, weather, aqi, surgeProbability) up to
\* the first query of the branch taken, with the answer Gemini gave
ReconcileAlways(p, region, surgeProbability, geminiAnalysis) ==
  /\ recon[p].pc = "idle"
  /\ \A q \in Pipelines : q < p => recon[q].pc # "idle"
  /\ Cardinality({d \in pandemics : d.date >= 0})
       + Cardinality(Names(geminiAnalysis.detectedPandemics)) <= MaxRecords
  /\ LET r == [IdleRecon EXCEPT !.region = region, !.surge = surgeProbability]
         asked == [r EXCEPT !.asked = TRUE]
     IN recon' = [recon EXCEPT ![p] =
          IF geminiAnalysis.ok /\ Len(geminiAnalysis.detectedPandemics) > 0
               THEN [asked EXCEPT !.pc = "find", !.todo = geminiAnalysis.detectedPandemics]
               ELSE [asked EXCEPT !.pc = "purgeFind"]]
  /\ UNCHANGED <<readingVars, retry, pandemics, nextId, trial, scoreVars, requestVars>>
ReconcileBelow30(p, region, surgeProbability, geminiAnalysis) ==
  /\ recon[p].pc = "idle"
  /\ \A q \in Pipelines : q < p => recon[q].pc # "idle"
  /\ Cardinality({d \in pandemics : d.date >= 0})
       + Cardinality(Names(geminiAnalysis.detectedPandemics)) <= MaxRecords
  /\ LET r == [IdleRecon EXCEPT !.region = region, !.surge = surgeProbability]
         asked == [r EXCEPT !.asked = TRUE]
     IN recon' = [recon EXCEPT ![p] =
          IF surgeProbability < 30 THEN [r EXCEPT !.pc = "returned"]
          ELSE IF geminiAnalysis.ok /\ Len(geminiAnalysis.detectedPandemics) > 0
               THEN [asked EXCEPT !.pc = "find", !.todo = geminiAnalysis.detectedPandemics]
               ELSE [asked EXCEPT !.pc = "purgeFind"]]
  /\ UNCHANGED <<readingVars, retry, pandemics, nextId, trial, scoreVars, requestVars>>
Reconcile(p, region, surgeProbability, geminiAnalysis) ==
  /\ recon[p].pc = "idle"
  /\ \A q \in Pipelines : q < p => recon[q].pc # "idle"
  /\ Cardinality({d \in pandemics : d.date >= 0})
       + Cardinality(Names(geminiAnalysis.detectedPandemics)) <= MaxRecords
  /\ LET r == [IdleRecon EXCEPT !.region = region, !.surge = surgeProbability]
         asked == [r EXCEPT !.asked = TRUE]
     IN recon' = [recon EXCEPT ![p] =
          IF surgeProbability < SURGE_THRESHOLD THEN [r EXCEPT !.pc = "returned"]
          ELSE IF geminiAnalysis.ok /\ Len(geminiAnalysis.detectedPandemics) > 0
               THEN [asked EXCEPT !.pc = "find", !.todo = geminiAnalysis.detectedPandemics]
               ELSE [asked EXCEPT !.pc = "purgeFind"]]
  /\ UNCHANGED <<readingVars, retry, pandemics, nextId, trial, scoreVars, requestVars>>

\* findOne of a recent document of the disease answers
FindExisting(p) ==
  /\ recon[p].pc = "find"
  /\ \E e \in findRecent(recon[p].region, Head(recon[p].todo).diseaseName, now) :
       recon' = [recon EXCEPT ![p] = [@ EXCEPT !.pc = "write", !.existing = e]]
  /\ UNCHANGED <<readingVars, retry, pandemics, nextId, trial, scoreVars, requestVars>>

\* `if (!existing)`: createPandemicData saves a new document
Create(p) ==
  /\ recon[p].pc = "write"
  /\ recon[p].existing = NoDoc
  /\ LET r == recon[p]
         doc == newPandemic(nextId, r.region, now, Head(r.todo), r.surge)
     IN IF valid(doc)
        THEN /\ pandemics' = pandemics \cup {doc}
             /\ nextId' = nextId + 1
             /\ recon' = [recon EXCEPT ![p] =
                  NextDetection([r EXCEPT !.pandemicRecords = Append(@, doc.id)])]
        ELSE /\ recon' = [recon EXCEPT ![p] = Errored(r)]
             /\ UNCHANGED <<pandemics, nextId>>
  /\ UNCHANGED <<readingVars, retry, trial, scoreVars, requestVars>>

\* else: the loaded document is changed and saved
Update(p) ==
  /\ recon[p].pc = "write"
  /\ recon[p].existing # NoDoc
  /\ LET r == recon[p]
         stored == {d \in pandemics : d.id = r.existing.id}
         gone == stored = {} /\ merge(r.existing, Head(r.todo)) # r.existing
         failed == \E d \in stored : ~updateOf(d, r.existing, Head(r.todo)).ok
     IN IF gone \/ failed
        THEN /\ recon' = [recon EXCEPT ![p] = Errored(r)]
             /\ UNCHANGED pandemics
        ELSE /\ pandemics' = (pandemics \ stored)
                               \cup {updateOf(d, r.existing, Head(r.todo)).doc : d \in stored}
             /\ recon' = [recon EXCEPT ![p] = NextDetection(r)]
  /\ UNCHANGED <<readingVars, retry, nextId, trial, scoreVars, requestVars>>

\* no detection: findOne of recent real data answers
PurgeFind(p) ==
  /\ recon[p].pc = "purgeFind"
  /\ LET recentRealData ==
           {d \in pandemics : d.region = recon[p].region /\ d.date >= now - PURGE_HOURS
                                /\ d.source \in {"gemini-ai", "system"}}
     IN recon' = [recon EXCEPT ![p] =
          [@ EXCEPT !.pc = IF recentRealData = {} THEN "purge" ELSE "returned"]]
  /\ UNCHANGED <<readingVars, retry, pandemics, nextId, trial, scoreVars, requestVars>>

\* deleteMany({ region, date < 7 days ago, source: 'basic-analysis' })
PurgeAnySource(p) ==
  /\ recon[p].pc = "purge"
  /\ pandemics' = {d \in pandemics : ~(d.region = recon[p].region /\ d.date < now - PURGE_HOURS)}
  /\ recon' = [recon EXCEPT ![p] = [@ EXCEPT !.pc = "returned"]]
  /\ UNCHANGED <<readingVars, retry, nextId, trial, scoreVars, requestVars>>
Purge(p) ==
  /\ recon[p].pc = "purge"
  /\ pandemics' = {d \in pandemics : ~(d.region = recon[p].region /\ d.date < now - PURGE_HOURS
                                         /\ d.source = "basic-analysis")}
  /\ recon' = [recon EXCEPT ![p] = [@ EXCEPT !.pc = "returned"]]
  /\ UNCHANGED <<readingVars, retry, nextId, trial, scoreVars, requestVars>>

\* the caller has the result
ReconcileReturns(p) ==
  /\ recon[p].pc = "returned"
  /\ recon' = [recon EXCEPT ![p] = IdleRecon]
  /\ UNCHANGED <<readingVars, retry, pandemics, nextId, trial, scoreVars, requestVars>>

\* time passes between reconciliations
AdvanceOutbreak ==
  /\ \A p \in Pipelines : recon[p].pc = "idle"
  /\ \E t \in OutbreakTimes :
       /\ t > now
       /\ \A u \in OutbreakTimes : u > now => t <= u
       /\ now' = t
  /\ UNCHANGED <<apiKey, cities, readings, calls, sched, retry, outbreakVars, trial, scoreVars, requestVars>>

InitOutbreak ==
  /\ ReadingIdle
  /\ retry = RetryIdle
  /\ OutbreakIdle
  /\ trial = NoTrial
  /\ ScoreIdle
  /\ RequestIdle

\* reconciliations that do not overlap: one starts when none is under way
NextOutbreak ==
  \/ \E p \in Pipelines, region \in Regions, surge \in Surges, analysis \in Analyses :
       /\ \A q \in Pipelines : recon[q].pc = "idle"
       /\ Reconcile(p, region, surge, analysis)
  \/ \E p \in Pipelines : FindExisting(p)
  \/ \E p \in Pipelines : Create(p)
  \/ \E p \in Pipelines : Update(p)
  \/ \E p \in Pipelines : PurgeFind(p)
  \/ \E p \in Pipelines : Purge(p)
  \/ \E p \in Pipelines : ReconcileReturns(p)
  \/ AdvanceOutbreak

SpecOutbreak == InitOutbreak /\ [][NextOutbreak]_vars

(* --------------------- two observations, both orders ------------------ *)
\* surgeProbability values at which analyzeAndCreatePandemicData reconciles
ReconcilingSurges == {s \in Surges : ~(s < SURGE_THRESHOLD)}

InitMerge ==
  /\ ReadingIdle
  /\ retry = RetryIdle
  /\ OutbreakIdle
  /\ ScoreIdle
  /\ RequestIdle
  /\ \E region \in Regions, surge \in ReconcilingSurges, a, b \in Observations :
       /\ a.diseaseName = b.diseaseName
       /\ trial = [NoTrial EXCEPT !.pc = "chosen", !.region = region, !.surge = surge,
                                  !.a = a, !.b = b]

\* the first observation finds no document of the disease: the create branch
FirstReconciled ==
  /\ trial.pc = "chosen"
  /\ trial' = [trial EXCEPT
                 !.pc = "first",
                 !.one = newPandemic(1, trial.region, now, trial.a, trial.surge),
                 !.two = newPandemic(1, trial.region, now, trial.b, trial.surge)]
  /\ UNCHANGED <<readingVars, retry, outbreakVars, scoreVars, requestVars>>

\* the second observation finds that document in the window: the update branch
SecondReconciled ==
  /\ trial.pc = "first"
  /\ valid(trial.one) /\ valid(trial.two)
  /\ InDedupWindow(trial.one.date, now) /\ InDedupWindow(trial.two.date, now)
  /\ trial' = [trial EXCEPT
                 !.pc = "second",
                 !.ab = updateOf(trial.one, trial.one, trial.b).doc,
                 !.ba = updateOf(trial.two, trial.two, trial.a).doc]
  /\ UNCHANGED <<readingVars, retry, outbreakVars, scoreVars, requestVars>>

NextMerge == FirstReconciled \/ SecondReconciled

SpecMerge == InitMerge /\ [][NextMerge]_vars

(* ------------- a collection that holds fallback-generated data -------- *)
\* bound: detections in one answer
MaxDetectedPurge == 1
\* bound: the clock stops advancing at this hour
MaxPurgeTime == 2

\* a document written before the run began
legacyDoc(id, region, date, source) ==
  [newPandemic(id, region, date, [NoObservation EXCEPT !.diseaseName = "Influenza"],
               SURGE_THRESHOLD)
     EXCEPT !.source = source]

\* fallback-generated documents older than 7 days at the start and 2 hours
\* younger than that, and an old document of an authoritative source
LegacyData ==
  {legacyDoc(1, "Delhi", 0 - PURGE_HOURS - 32, "basic-analysis"),
   legacyDoc(2, "Delhi", 0 - PURGE_HOURS + 2, "basic-analysis"),
   legacyDoc(3, "Delhi", 0 - PURGE_HOURS - 32, "system"),
   legacyDoc(4, "Mumbai", 0 - PURGE_HOURS - 32, "basic-analysis")}

InitPurge ==
  /\ ReadingIdle
  /\ retry = RetryIdle
  /\ pandemics = LegacyData
  /\ nextId = Cardinality(LegacyData) + 1
  /\ recon = [p \in Pipelines |-> IdleRecon]
  /\ trial = NoTrial
  /\ ScoreIdle
  /\ RequestIdle

NextPurge ==
  \/ \E p \in Pipelines, region \in Regions, surge \in Surges, analysis \in Analyses :
       /\ \A q \in Pipelines : recon[q].pc = "idle"
       /\ Len(analysis.detectedPandemics) <= MaxDetectedPurge
       /\ Reconcile(p, region, surge, analysis)
  \/ \E p \in Pipelines : FindExisting(p)
  \/ \E p \in Pipelines : Create(p)
  \/ \E p \in Pipelines : Update(p)
  \/ \E p \in Pipelines : PurgeFind(p)
  \/ \E p \in Pipelines : Purge(p)
  \/ \E p \in Pipelines : ReconcileReturns(p)
  \/ (now < MaxPurgeTime /\ AdvanceOutbreak)

SpecPurge == InitPurge /\ [][NextPurge]_vars

(* ------------------------ risk scorer: actions ------------------------- *)
\* a feature record is at hand
InitScore ==
  /\ ReadingIdle
  /\ retry = RetryIdle
  /\ OutbreakIdle
  /\ trial = NoTrial
  /\ RequestIdle
  /\ predictions = {}
  /\ \E f \in Features, region \in Regions :
       scored = [NoScore EXCEPT !.pc = "built", !.region = region, !.features = f]

\* `const surgeProbability = calculateSurgeProbability(features)`
Score ==
  /\ scored.pc = "built"
  /\ scored' = [scored EXCEPT !.pc = "scored",
                              !.surgeProbability = calculateSurgeProbability(scored.features)]
  /\ UNCHANGED <<readingVars, retry, outbreakVars, trial, predictions, requestVars>>

\* generatePrediction goes on to `await prediction.save()`
SavePrediction ==
  /\ scored.pc = "scored"
  /\ scored.features \in BuiltFeatures
  /\ LET doc == newPrediction(scored.region, now, scored.surgeProbability, scored.features)
     IN IF validPrediction(doc)
        THEN /\ predictions' = predictions \cup {doc}
             /\ scored' = [scored EXCEPT !.pc = "saved"]
        ELSE /\ scored' = [scored EXCEPT !.pc = "failed"]
             /\ UNCHANGED predictions
  /\ UNCHANGED <<readingVars, retry, outbreakVars, trial, requestVars>>

\* generatePrediction runs again on the same readings and admissions
GenerateAgain ==
  /\ scored.pc = "saved"
  /\ Cardinality(predictions) < MaxPredictions
  /\ scored' = [scored EXCEPT !.pc = "built", !.surgeProbability = 0]
  /\ UNCHANGED <<readingVars, retry, outbreakVars, trial, predictions, requestVars>>

NextScore == Score \/ SavePrediction \/ GenerateAgain \/ Advance

SpecScore == InitScore /\ [][NextScore]_vars

(* ---------------------- request handlers: actions --------------------- *)
\* cities a request may name: both pass isValidCityName; "Goa" is no key of
\* cityStateMap
RequestCities == {"Delhi", "Goa"}

\* temperature of the provider's answer for a city: at and around the
\* thresholds of the default AQI
Temperatures(cityName) == IF cityName = "Delhi" THEN {35, 36} ELSE {25}
\* what else a weather answer carries, and the index of an AQI answer
WeatherValues(cityName) ==
  { [temperature |-> t, humidity |-> 40, precipitation |-> 0] :
      t \in Temperatures(cityName) }
AqiValues == { [aqi |-> 160] }

\* `date ? new Date(date) : new Date()`: now, or a date the client gives
PredictDates(t) == {t, t - FRESH_HOURS}

\* what a Gemini call gives the caller: JSON that parses, text that does not,
\* or a failure after the retries
GeminiAnswers == {"json", "text", "failed"}

\* the answers of detectPandemicsWithGemini a request meets
RequestAnalyses ==
  {NoAnalysis} \cup
  { [ok |-> TRUE, detectedPandemics |-> <<d>>] :
      d \in {x \in Detections : x.activeCases > 0 /\ x.severity # ""} }

\* fetchAndStoreAqi(city, '', 'India', true) / fetchAndStoreWeather(city, true)
\* from the call to the document to insert, or to the throw
forcedFetch(sig, cityName, resp1, resp2, values, t) ==
  LET c0 == Begin(sig, cityName, TRUE)
      c1 == IF c0.pc = "fetch" THEN AfterResponse(c0, resp1, t) ELSE c0
      c2 == IF c1.pc = "fetch2" THEN AfterResponse(c1, resp2, t) ELSE c1
  IN IF c2.pc = "save" THEN [ok |-> TRUE, doc |-> NewReading(c2) @@ values]
     ELSE [ok |-> FALSE, doc |-> NoReading]

\* an estimate that forgets the weather
defaultAqiFlat(weather) == 50

\* `weather.temperature > 35 ? 80 : weather.temperature > 25 ? 60 : 50`
defaultAqi(weather) ==
  IF weather.temperature > 35 THEN 80 ELSE IF weather.temperature > 25 THEN 60 ELSE 50

\* the object built in place of a reading: { aqi: defaultAqi, ..., source: 'estimated' }
estimatedAqi(cityName, weather, t) ==
  [location |-> cityName, timestamp |-> t, source |-> "estimated",
   aqi |-> defaultAqi(weather)]

\* `const features = {...}`: no HospitalStats document is ever written, so
\* admissionsLast7dAvg is 50
buildFeatures(aqi, weather) ==
  [aqi |-> aqi.aqi, temperature |-> weather.temperature, humidity |-> weather.humidity,
   precipitation |-> weather.precipitation,
   admissionsLast7dAvg |-> BASELINE_ADMISSIONS,
   baselineAdmissions |-> BASELINE_ADMISSIONS,
   isFestival |-> FALSE, festivalMultiplier |-> 0]

\* what getLatestPrediction gives the route: null, or a document's date
NoPrediction == [found |-> FALSE, date |-> 0]

\* a lookup that takes the document of any date
getLatestPredictionAny(cityName) ==
  LET mine == {d \in predictions : d.region = cityName}
  IN IF cityName = "" \/ mine = {} THEN {NoPrediction}
     ELSE {[found |-> TRUE, date |-> d.date] : d \in mine}

\* Prediction.findOne({ region }).sort({ date: -1 }): what it may return
getLatestPrediction(cityName) ==
  LET mine == {d \in predictions : d.region = cityName}
  IN IF cityName = "" \/ mine = {} THEN {NoPrediction}
     ELSE {[found |-> TRUE, date |-> d.date] :
             d \in {d \in mine : \A e \in mine : e.date <= d.date}}

\* `!prediction || (new Date() - new Date(prediction.date)) > 6 * 60 * 60 * 1000`
NeedsNewFromSixHours(prediction, t) ==
  ~prediction.found \/ t - prediction.date >= FRESH_HOURS
NeedsNew(prediction, t) == ~prediction.found \/ t - prediction.date > FRESH_HOURS

\* the _id of a new document: documents equal in every field are numbered
Copies(doc) == Cardinality({d \in predictions : [d EXCEPT !.id = 0] = doc})

\* `getActivePandemics(region, 7)`: seven days, in hours
ACTIVE_HOURS == 168

\* getActivePandemics(region, 7): per disease the document first in the order
\* (date descending, activeCases descending) among those with cases and a
\* severity above 'low'
getActivePandemics(region, t) ==
  LET found == {d \in pandemics :
                  /\ d.region = region
                  /\ d.date >= t - ACTIVE_HOURS
                  /\ d.activeCases > 0
                  /\ d.severity \in {"moderate", "high", "critical"}}
      First(name) ==
        CHOOSE d \in found :
          /\ d.diseaseName = name
          /\ \A e \in found : e.diseaseName = name =>
               (e.date < d.date \/ (e.date = d.date /\ e.activeCases <= d.activeCases))
  IN {First(name) : name \in {d.diseaseName : d \in found}}

RECURSIVE SumActiveCases(_)
SumActiveCases(docs) ==
  IF docs = {} THEN 0
  ELSE LET d == CHOOSE x \in docs : TRUE
       IN d.activeCases + SumActiveCases(docs \ {d})

\* getTotalActiveCases(region)
getTotalActiveCases(region, t) == SumActiveCases(getActivePandemics(region, t))

\* `const baselinePatients = 100`
BASELINE_PATIENTS == 100

\* the scores at which the double 100 * (1 + (s / 100) * 0.5) is
\* 100 + s/2 - 2^-46 instead of 100 + s/2, and Math.round goes down
HalfLost == {1, 3, 5, 7, 47, 51, 55}

\* Math.round(basePatientCount * (1 + (surgeProbability / 100) * 0.5))
surgeCount(basePatientCount, surgeProbability) ==
  RoundDiv(basePatientCount * (200 + surgeProbability), 200)
    - (IF basePatientCount = BASELINE_PATIENTS /\ surgeProbability \in HalfLost
       THEN 1 ELSE 0)

\* a count that takes the whole of the surge instead of half of it
patientCountFullSurge(totalActiveCases, basePatientCount, surgeProbability) ==
  Max(basePatientCount,
      RoundDiv(basePatientCount * (100 + surgeProbability), 100)
        + RoundDiv(3 * totalActiveCases, 10))

\* calculatePatientCountFromPandemics once getTotalActiveCases has answered:
\* Math.max(base, Math.round(base * surgeMultiplier) + Math.round(total * 0.3))
patientCount(totalActiveCases, basePatientCount, surgeProbability) ==
  Max(basePatientCount,
      surgeCount(basePatientCount, surgeProbability)
        + RoundDiv(3 * totalActiveCases, 10))

\* a generatePrediction that passes over what was thrown
ThrownSwallowed(r, what) == [r EXCEPT !.pc = "needAqi", !.error = what]

\* generatePrediction threw: POST /predict and the advice routes answer 500;
\* GET /latest goes on with the Prediction it found, if it found one
Thrown(r, what) ==
  IF r.route = "latest" /\ r.found
  THEN [r EXCEPT !.pc = "respond", !.error = what]
  ELSE [r EXCEPT !.pc = "failed", !.error = what, !.status = 500]

\* a generatePrediction to which a missing AQI is as fatal as missing weather
withoutAqiThrows(r, t) == Thrown(r, "aqi")

\* `catch (aqiError)`: go on with the default built from the weather
withoutAqi(r, t) == [r EXCEPT !.pc = "agent", !.aqi = estimatedAqi(r.city, r.weather, t)]

\* what runOperationsAgent returns for an answer of Gemini it received:
\* JSON.parse of the text, or the fallback of its catch (parseError)
parseAgent(answer) ==
  IF answer = "json"
  THEN [summary |-> "summary", surgeProbabilityInsight |-> "insight",
        staffingPlan |-> "plan", supplyPlan |-> "plan",
        suggestedActions |-> <<"action">>, confidence |-> "medium"]
  ELSE [summary |-> "rawText", surgeProbabilityInsight |-> "Not provided",
        staffingPlan |-> "Not provided", supplyPlan |-> "Not provided",
        suggestedActions |-> <<>>, confidence |-> "low"]

\* an agent call for which text that does not parse is a failure too
agentReturnedStrict(r, answer) ==
  IF answer # "json" THEN Thrown([r EXCEPT !.agent = answer], "agent")
  ELSE [r EXCEPT !.pc = "lookups", !.agent = answer]

\* `const agentResponse = await runOperationsAgent(...)`: it throws only
\* when the call itself failed
agentReturned(r, answer) ==
  IF answer = "failed" THEN Thrown([r EXCEPT !.agent = answer], "agent")
  ELSE [r EXCEPT !.pc = "lookups", !.agent = answer]

\* bound on the stores when a request may still begin
MaxRequestReadings == 2
MaxRequestPredictions == 2
RoomForRequest ==
  /\ Cardinality(predictions) < MaxRequestPredictions
  /\ TotalReadings < MaxRequestReadings

\* POST /predict with a valid city
StartPredict(cityName, date) ==
  /\ req.pc = "idle"
  /\ RoomForRequest
  /\ req' = [NoRequest EXCEPT !.pc = "routeAqi", !.route = "predict",
                              !.city = cityName, !.date = date]
  /\ UNCHANGED <<readingVars, retry, outbreakVars, trial, scoreVars, counted>>

\* GET /latest with a valid city: getLatestPrediction, then the age test
StartLatest(cityName) ==
  /\ req.pc = "idle"
  /\ \E prediction \in getLatestPrediction(cityName) :
       /\ NeedsNew(prediction, now) => RoomForRequest
       /\ req' = [NoRequest EXCEPT
                    !.pc = IF NeedsNew(prediction, now) THEN "routeWeather" ELSE "respond",
                    !.route = "latest", !.city = cityName, !.date = now,
                    !.found = prediction.found, !.foundDate = prediction.date]
  /\ UNCHANGED <<readingVars, retry, outbreakVars, trial, scoreVars, counted>>

\* GET /staff-advice, GET /supply-advice: generate only if there is none
StartAdvice(cityName) ==
  /\ req.pc = "idle"
  /\ \E prediction \in getLatestPrediction(cityName) :
       /\ ~prediction.found => RoomForRequest
       /\ req' = [NoRequest EXCEPT
                    !.pc = IF prediction.found THEN "done" ELSE "generate",
                    !.status = IF prediction.found THEN 200 ELSE 0,
                    !.route = "advice", !.city = cityName, !.date = now,
                    !.found = prediction.found, !.foundDate = prediction.date]
  /\ UNCHANGED <<readingVars, retry, outbreakVars, trial, scoreVars, counted>>

\* the route's `await fetchAndStoreAqi(city, '', 'India', true)`: in POST
\* /predict a throw leaves the try block, past the weather refresh
RouteAqi ==
  /\ req.pc = "routeAqi"
  /\ \E resp1 \in AqiResponses, resp2 \in AqiResponses, values \in AqiValues :
       LET f == forcedFetch("aqi", req.city, resp1, resp2, values, now)
       IN /\ readings' = IF f.ok THEN [readings EXCEPT !["aqi"] = Persist(@, f.doc)]
                         ELSE readings
          /\ req' = [req EXCEPT !.aqiTried = TRUE,
                                !.pc = IF req.route = "predict" /\ f.ok THEN "routeWeather"
                                       ELSE "generate"]
  /\ UNCHANGED <<now, apiKey, cities, calls, sched, retry, outbreakVars, trial, scoreVars,
                 counted>>

\* the route's `await fetchAndStoreWeather(city, true)`
RouteWeather ==
  /\ req.pc = "routeWeather"
  /\ \E resp \in WeatherResponses, values \in WeatherValues(req.city) :
       LET f == forcedFetch("weather", req.city, resp, resp, values, now)
       IN /\ readings' = IF f.ok THEN [readings EXCEPT !["weather"] = Persist(@, f.doc)]
                         ELSE readings
          /\ req' = [req EXCEPT !.weatherTried = TRUE,
                                !.pc = IF req.route = "latest" THEN "routeAqi"
                                       ELSE "generate"]
  /\ UNCHANGED <<now, apiKey, cities, calls, sched, retry, outbreakVars, trial, scoreVars,
                 counted>>

\* generatePrediction: getLatestAqi, getLatestWeather
Generate ==
  /\ req.pc = "generate"
  /\ \E a \in getLatest(readings["aqi"], req.city),
        w \in getLatest(readings["weather"], req.city) :
       req' = [req EXCEPT !.generated = TRUE, !.aqi = a, !.weather = w,
                          !.pc = IF w = NoReading THEN "needWeather"
                                 ELSE IF a = NoReading THEN "needAqi" ELSE "agent"]
  /\ UNCHANGED <<readingVars, retry, outbreakVars, trial, scoreVars, counted>>

\* `if (!weather)`: the forced refresh, or the throw
NeedWeather ==
  /\ req.pc = "needWeather"
  /\ \E resp \in WeatherResponses, values \in WeatherValues(req.city) :
       LET f == forcedFetch("weather", req.city, resp, resp, values, now)
           tried == [req EXCEPT !.weatherTried = TRUE]
       IN IF f.ok
          THEN /\ readings' = [readings EXCEPT !["weather"] = Persist(@, f.doc)]
               /\ req' = [tried EXCEPT !.weather = f.doc,
                                       !.pc = IF req.aqi = NoReading THEN "needAqi"
                                              ELSE "agent"]
          ELSE /\ readings' = readings
               /\ req' = Thrown(tried, "weather")
  /\ UNCHANGED <<now, apiKey, cities, calls, sched, retry, outbreakVars, trial, scoreVars,
                 counted>>

\* `if (!aqi)`: the forced refresh, or the default built from the weather
NeedAqi ==
  /\ req.pc = "needAqi"
  /\ \E resp1 \in AqiResponses, resp2 \in AqiResponses, values \in AqiValues :
       LET f == forcedFetch("aqi", req.city, resp1, resp2, values, now)
       IN /\ readings' = IF f.ok THEN [readings EXCEPT !["aqi"] = Persist(@, f.doc)]
                         ELSE readings
          /\ req' = IF f.ok
                    THEN [req EXCEPT !.aqiTried = TRUE, !.pc = "agent", !.aqi = f.doc]
                    ELSE withoutAqi([req EXCEPT !.aqiTried = TRUE], now)
  /\ UNCHANGED <<now, apiKey, cities, calls, sched, retry, outbreakVars, trial, scoreVars,
                 counted>>

\* features, calculateSurgeProbability, `await runOperationsAgent(...)`
Agent ==
  /\ req.pc = "agent"
  /\ \E answer \in GeminiAnswers :
       LET scoredReq == [req EXCEPT !.surge = calculateSurgeProbability(
                                                 buildFeatures(req.aqi, req.weather))]
       IN req' = agentReturned(scoredReq, answer)
  /\ UNCHANGED <<readingVars, retry, outbreakVars, trial, scoreVars, counted>>

\* getDiseasesForConditions, getMedicinesForDiseases: defaults unless both parse
Lookups ==
  /\ req.pc = "lookups"
  /\ \E diseases \in GeminiAnswers, medicines \in GeminiAnswers :
       req' = [req EXCEPT !.pc = "reconcile",
                          !.lookups = IF diseases = "json" /\ medicines = "json"
                                      THEN "json" ELSE "text"]
  /\ UNCHANGED <<readingVars, retry, outbreakVars, trial, scoreVars, counted>>

\* analyzeAndCreatePandemicData returned; getActivePandemics;
\* calculatePatientCountFromPandemics
AfterReconcile ==
  /\ req.pc = "reconcile"
  /\ recon[1].pc = "returned"
  /\ recon' = [recon EXCEPT ![1] = IdleRecon]
  /\ req' = [req EXCEPT !.pc = "save",
                        !.count = patientCount(getTotalActiveCases(req.city, now),
                                               BASELINE_PATIENTS, req.surge)]
  /\ UNCHANGED <<readingVars, retry, pandemics, nextId, trial, scoreVars, counted>>

\* new Prediction({...}); await prediction.save(); return prediction
SaveRequested ==
  /\ req.pc = "save"
  /\ LET doc == newPrediction(req.city, req.date, req.surge,
                              buildFeatures(req.aqi, req.weather))
                  @@ [id |-> 0, estimatedPatientCount |-> req.count]
     IN IF validPrediction(doc)
        THEN /\ predictions' = predictions \cup {[doc EXCEPT !.id = Copies(doc) + 1]}
             /\ req' = [req EXCEPT !.inserted = Copies(doc) + 1, !.status = 200,
                                   !.pc = IF req.route = "latest" THEN "respond"
                                          ELSE "done"]
        ELSE /\ predictions' = predictions
             /\ req' = Thrown(req, "save")
  /\ UNCHANGED <<readingVars, retry, outbreakVars, trial, scored, counted>>

\* GET /latest: getLatestAqi, getLatestWeather; 500 without weather, a
\* default AQI object in the answer without an AQI reading
Respond ==
  /\ req.pc = "respond"
  /\ \E a \in getLatest(readings["aqi"], req.city),
        w \in getLatest(readings["weather"], req.city) :
       req' = IF w = NoReading
              THEN [req EXCEPT !.pc = "failed", !.status = 500, !.weather = w, !.aqi = a]
              ELSE [req EXCEPT !.pc = "done", !.status = 200, !.weather = w,
                               !.aqi = IF a = NoReading THEN estimatedAqi(req.city, w, now)
                                       ELSE a]
  /\ UNCHANGED <<readingVars, retry, outbreakVars, trial, scoreVars, counted>>

\* the response is sent
RequestEnds ==
  /\ req.pc \in {"done", "failed"}
  /\ req' = NoRequest
  /\ UNCHANGED <<readingVars, retry, outbreakVars, trial, scoreVars, counted>>

\* time passes between requests
MaxRequestTime == 3
Later ==
  /\ req.pc = "idle"
  /\ now + ClockStep <= MaxRequestTime
  /\ now' = now + ClockStep
  /\ UNCHANGED <<apiKey, cities, readings, calls, sched, retry, outbreakVars, trial,
                 scoreVars, requestVars>>

InitRequest ==
  /\ ReadingIdle
  /\ retry = RetryIdle
  /\ OutbreakIdle
  /\ trial = NoTrial
  /\ ScoreIdle
  /\ RequestIdle

\* one request at a time; analyzeAndCreatePandemicData runs inside it
NextRequest ==
  \/ \E cityName \in RequestCities, date \in PredictDates(now) : StartPredict(cityName, date)
  \/ \E cityName \in RequestCities : StartLatest(cityName)
  \/ \E cityName \in RequestCities : StartAdvice(cityName)
  \/ RouteAqi
  \/ RouteWeather
  \/ Generate
  \/ NeedWeather
  \/ NeedAqi
  \/ Agent
  \/ Lookups
  \/ \E analysis \in RequestAnalyses :
       /\ req.pc = "reconcile"
       /\ Reconcile(1, req.city, req.surge, analysis)
  \/ FindExisting(1)
  \/ Create(1)
  \/ Update(1)
  \/ PurgeFind(1)
  \/ Purge(1)
  \/ AfterReconcile
  \/ SaveRequested
  \/ Respond
  \/ RequestEnds
  \/ Later

SpecRequest == InitRequest /\ [][NextRequest]_vars

(* ------------------- the patient count as a function ------------------ *)
\* totals of active cases: none, few, and enough to matter
ActiveCaseTotals == {0, 1, 2, 5, 80, 1000}

InitCount ==
  /\ ReadingIdle
  /\ retry = RetryIdle
  /\ OutbreakIdle
  /\ trial = NoTrial
  /\ ScoreIdle
  /\ req = NoRequest
  /\ \E s \in 0..MAX_PROBABILITY, total \in ActiveCaseTotals :
       counted = [NoCount EXCEPT !.pc = "called", !.surgeProbability = s,
                                 !.totalActiveCases = total]

\* calculatePatientCountFromPandemics(region, 100, surgeProbability) returns
Count ==
  /\ counted.pc = "called"
  /\ counted' = [counted EXCEPT !.pc = "returned",
                                !.result = patientCount(counted.totalActiveCases,
                                                        BASELINE_PATIENTS,
                                                        counted.surgeProbability)]
  /\ UNCHANGED <<readingVars, retry, outbreakVars, trial, scoreVars, req>>

NextCount == Count

SpecCount == InitCount /\ [][NextCount]_vars

\* reconciliations that overlap: the request handlers of two predictions
\* interleave at every await; Gemini answers with at most MaxDetectedConc
\* detections
NextOutbreakConc ==
  \/ \E p \in Pipelines, region \in Regions, surge \in Surges, analysis \in Analyses :
       /\ Len(analysis.detectedPandemics) <= MaxDetectedConc
       /\ Reconcile(p, region, surge, analysis)
  \/ \E p \in Pipelines : FindExisting(p)
  \/ \E p \in Pipelines : Create(p)
  \/ \E p \in Pipelines : Update(p)
  \/ \E p \in Pipelines : PurgeFind(p)
  \/ \E p \in Pipelines : Purge(p)
  \/ \E p \in Pipelines : ReconcileReturns(p)
  \/ (now < MaxConcTime /\ AdvanceOutbreak)

SpecOutbreakConc == InitOutbreak /\ [][NextOutbreakConc]_vars

(* ------------------------- reading cache claims ----------------------- *)

\* C1: a call with forceFetch = false that finds the location's most recent
\* stored reading younger than 6 hours returns that reading, has issued no
\* provider call and has saved nothing.
C1_FreshReadingServedFromCache ==
  \A c \in CallIds :
    (calls[c].pc # "idle" /\ ~calls[c].force /\ calls[c].expect # {}) =>
      /\ calls[c].pc \in {"done", "looked"}
      /\ calls[c].result \in calls[c].expect
      /\ calls[c].nCalls = 0
      /\ calls[c].wrote = 0

\* a non-forced call has returned the newer of two stored readings of its city
C1_Witness ==
  \E c \in CallIds :
    /\ calls[c].pc = "done" /\ ~calls[c].force
    /\ calls[c].result \in calls[c].expect
    /\ calls[c].nCalls = 0 /\ calls[c].wrote = 0
    /\ \E d \in BagToSet(readings[calls[c].sig]) :
         d.location = calls[c].loc /\ d.timestamp < calls[c].result.timestamp

Ended(call) == call.pc \in {"done", "failed", "looked"}

\* C2 as stated: every call with forceFetch = true that has returned or failed
\* has issued at least one provider call.
C2_ForcedAlwaysCallsProvider ==
  \A c \in CallIds : (calls[c].force /\ Ended(calls[c])) => calls[c].nCalls >= 1

\* C2 amended: every call with forceFetch = true, a non-empty city name and
\* the provider's API key set, that has returned or failed, has issued at
\* least one provider call, whatever readings are stored.
C2_ForcedCallsProviderForValidInput ==
  \A c \in CallIds :
    (calls[c].force /\ Ended(calls[c]) /\ calls[c].loc # "" /\ apiKey[calls[c].sig])
      => calls[c].nCalls >= 1

\* a forced call went to the provider and saved, although a reading of its
\* city younger than 6 hours was stored
C2_Witness ==
  \E c \in CallIds :
    /\ calls[c].pc = "done" /\ calls[c].force /\ calls[c].nCalls >= 1
    /\ \E d \in BagToSet(readings[calls[c].sig]) :
         /\ d.location = calls[c].loc
         /\ d.timestamp < calls[c].result.timestamp
         /\ now - d.timestamp < FRESH_HOURS

\* the calls of a signal whose save completes in this step
Completing(s) ==
  {c \in CallIds : calls[c].sig = s /\ calls[c].pc = "save" /\ calls'[c].pc = "done"}

\* C3: the reading collections only grow: every step keeps every stored
\* document as it is, and adds exactly one document per fetch that completes.
C3_ReadingsAppendOnly ==
  [][\A s \in Signals :
       /\ readings[s] \sqsubseteq readings'[s]
       /\ BagCardinality(readings'[s]) =
            BagCardinality(readings[s]) + Cardinality(Completing(s))
       /\ \A c \in Completing(s) :
            calls'[c].wrote = 1 /\ BagIn(calls'[c].result, readings'[s])]_vars

\* an older reading of a city is still stored beside a newer one of a
\* scheduler tick
C3_Witness ==
  /\ sched.pc = "logged"
  /\ \E s \in Signals : \E d, e \in BagToSet(readings[s]) :
       d.location = e.location /\ d.timestamp < e.timestamp

\* C4: getLatest, asked at once after a non-forced refresh returned, yields a
\* reading younger than 6 hours.
C4_LatestAfterRefreshIsFresh ==
  \A c \in CallIds :
    (calls[c].pc = "looked" /\ ~calls[c].force /\ ~calls[c].waited) =>
      /\ calls[c].latest # NoReading
      /\ now - calls[c].latest.timestamp < FRESH_HOURS

\* the refresh was served from the cache with a reading that is hours old
C4_Witness ==
  \E c \in CallIds :
    /\ calls[c].pc = "looked" /\ ~calls[c].force /\ ~calls[c].waited
    /\ calls[c].nCalls = 0
    /\ calls[c].latest # NoReading
    /\ now - calls[c].latest.timestamp = ClockStep

(* --------------------------- scheduler claim -------------------------- *)

\* C9: a tick starts exactly 2n forced refreshes, one per city and signal;
\* failed branches do not end the callback in its error handler, do not keep
\* the others from saving, and the logged count is the number of branches
\* that succeeded.
C9_SchedulerFanOut ==
  /\ sched.pc # "errored"
  /\ sched.pc \in {"waiting", "logged"} =>
       /\ Cardinality({c \in SchedSlots : calls[c].pc # "idle"}) = 2 * Len(cities)
       /\ \A i \in 1..Len(cities) : \A s \in Signals :
            /\ calls[Slot(i, s)].pc # "idle"
            /\ calls[Slot(i, s)].force
            /\ calls[Slot(i, s)].sig = s
            /\ calls[Slot(i, s)].loc = cities[i]
  /\ sched.pc = "logged" =>
       /\ sched.successCount = Cardinality({b \in Branches : calls[b].pc = "done"})
       /\ \A b \in Branches : calls[b].pc = "done" =>
            calls[b].wrote = 1 /\ BagIn(calls[b].result, readings[calls[b].sig])

\* a tick logged its count after a provider failure in one branch and a
\* saved reading in another
C9_Witness ==
  /\ sched.pc = "logged"
  /\ sched.successCount \in 1..(2 * Len(cities) - 1)
  /\ \E b \in Branches : calls[b].pc = "failed" /\ calls[b].nCalls >= 1
  /\ \E b \in Branches : calls[b].pc = "done" /\ calls[b].wrote = 1

(* --------------------------- withRetry claims -------------------------- *)
RetryEnded == retry.pc \in {"returned", "thrown"}

\* C5 (as stated): a closure that fails N times and then succeeds, run with
\* maxRetries >= N, makes withRetry return the closure's value after exactly
\* N + 1 invocations, whatever the failures are.
C5_SucceedsAfterFailures ==
  (RetryEnded /\ retry.fails <= retry.opts.maxRetries) =>
    /\ retry.pc = "returned"
    /\ retry.result = retry.value
    /\ retry.nCalls = retry.fails + 1

\* C5 (amended): a closure whose N failures are all retryable and which then
\* succeeds, run with maxRetries >= N, makes withRetry return the closure's
\* value after exactly N + 1 invocations.
C5_SucceedsAfterRetryableFailures ==
  (RetryEnded /\ retry.fails <= retry.opts.maxRetries /\ retry.allRetryable) =>
    /\ retry.pc = "returned"
    /\ retry.result = retry.value
    /\ retry.nCalls = retry.fails + 1

C5_Witness ==
  /\ retry.pc = "returned"
  /\ retry.fails = retry.opts.maxRetries
  /\ retry.fails >= 2
  /\ retry.nCalls = retry.fails + 1

\* C6: a closure that fails N times in a row with retryable failures, run with
\* maxRetries < N, is invoked exactly maxRetries + 1 times and withRetry then
\* throws the failure of the last invocation.
C6_GivesUpAfterMaxRetries ==
  (RetryEnded /\ retry.fails > retry.opts.maxRetries /\ retry.allRetryable) =>
    /\ retry.pc = "thrown"
    /\ retry.nCalls = retry.opts.maxRetries + 1
    /\ retry.thrown = retry.lastError
    /\ retry.thrown.seq = retry.nCalls

C6_Witness ==
  /\ retry.pc = "thrown"
  /\ retry.allRetryable
  /\ retry.opts.maxRetries >= 2
  /\ retry.fails > retry.opts.maxRetries + 1
  /\ retry.nCalls = retry.opts.maxRetries + 1

\* C7: a failure that is no rate limit, no 5xx, and mentions neither 'timeout'
\* nor 'fetch' is thrown at once: no sleep follows it and the closure is not
\* invoked again.
C7_NonRetryableThrownAtOnce ==
  (retry.lastError # NoError /\ ~RetryableFailure(retry.lastError)) =>
    /\ retry.pc = "thrown"
    /\ retry.thrown = retry.lastError
    /\ retry.nCalls = retry.lastError.seq
    /\ retry.sleeps = retry.nCalls - 1

C7_Witness ==
  /\ retry.pc = "thrown"
  /\ ~RetryableFailure(retry.lastError)
  /\ retry.nCalls >= 2
  /\ retry.attempt < retry.opts.maxRetries

RECURSIVE Pow(_, _)
Pow(b, k) == IF k = 0 THEN 1 ELSE b * Pow(b, k - 1)

\* the failure carries a retry hint: a RetryInfo detail whose retryDelay reads
\* as a number of seconds
CarriesHint(error) == ~getRetryDelay(error).null /\ ~getRetryDelay(error).nan

\* C8: the delay slept before a retry is at most maxDelay; it is the provider
\* hint if the failure carries one, else the current exponential delay (times
\* 1.5 for a rate limit), plus a jitter of 0..2000 ms, capped at maxDelay; the
\* exponential delay after k retries is min(initialDelay * multiplier^k, maxDelay).
C8_DelayFormula ==
  retry.pc = "sleeping" =>
    LET error == retry.lastError
        base == IF CarriesHint(error) THEN getRetryDelay(error).n
                ELSE IF RetryableFailure(error) /\ isRateLimit(error)
                     THEN (retry.delay * 3) \div 2
                     ELSE retry.delay
    IN /\ retry.slept <= retry.opts.maxDelay
       /\ retry.jitter \in 0..JITTER_MS
       /\ retry.slept = Min(base + retry.jitter, retry.opts.maxDelay)
       /\ retry.delay = Min(retry.opts.initialDelay
                              * Pow(retry.opts.backoffMultiplier, retry.attempt),
                            retry.opts.maxDelay)

\* a retryable failure whose hint is "0s" is followed by a sleep of the
\* backoff delay
C8_Witness ==
  /\ retry.pc = "sleeping"
  /\ retry.lastError.hint = <<"0", "s">>
  /\ retry.slept >= retry.delay
  /\ retry.delay > 0

(* ------------------------ outbreak reconciler claims ------------------- *)
\* a document of the disease in the location dated within the last 24 hours
HasRecent(region, diseaseName) ==
  \E d \in pandemics : d.region = region /\ d.diseaseName = diseaseName
                         /\ now - d.date <= DEDUP_HOURS

\* invocation p ends the save it was awaiting
Wrote(p) == recon[p].pc = "write" /\ recon'[p] # recon[p]

\* C10: when reconciliations of a location do not overlap, no two documents of
\* the same (location, disease) are dated less than 24 hours apart, and a
\* detection of a disease that has a document dated within the last 24 hours
\* updates that document and inserts none, also when the disease comes twice
\* in one answer.
C10_OneRecordPerDay ==
  /\ [](\A d, e \in pandemics :
          (d.id # e.id /\ d.region = e.region /\ d.diseaseName = e.diseaseName)
            => (d.date - e.date >= DEDUP_HOURS \/ e.date - d.date >= DEDUP_HOURS))
  /\ [][\A p \in Pipelines :
          (Wrote(p) /\ HasRecent(recon[p].region, Head(recon[p].todo).diseaseName))
            => /\ {d.id : d \in pandemics'} = {d.id : d \in pandemics}
               /\ nextId' = nextId
               /\ recon'[p].pandemicRecords = recon[p].pandemicRecords
               /\ \A d \in pandemics' \ pandemics :
                    d.region = recon[p].region
                    /\ d.diseaseName = Head(recon[p].todo).diseaseName]_vars

\* two documents of one disease in one location, the later one inserted
\* after the window of the earlier one had passed; the earlier one was inserted
\* from a detection without counts and then updated by a detection with counts
C10_Witness ==
  \E d, e \in pandemics :
    /\ d.id # e.id /\ d.region = e.region /\ d.diseaseName = e.diseaseName
    /\ d.date < e.date
    /\ d.activeCases = 80 /\ d.recovered = 10

\* the documents of a disease in a location dated within the last 24 hours
Current(region, diseaseName) ==
  {d \in pandemics : d.region = region /\ d.diseaseName = diseaseName
                       /\ now - d.date <= DEDUP_HOURS}

DiseaseNames == {d.diseaseName : d \in Detections}

\* C11: when reconciliations of a location overlap and detect the same
\* disease, the collection holds, once they have ended, at most one document
\* of that (location, disease) dated within the last 24 hours.
C11_OneRecordUnderConcurrency ==
  (\A p \in Pipelines : recon[p].pc \in {"idle", "returned"}) =>
    \A region \in Regions, name \in DiseaseNames :
      Cardinality(Current(region, name)) <= 1

\* two overlapping reconciliations have both returned a document they inserted
\* for the same disease in the same location at the same hour
C11_Witness ==
  /\ \A p \in Pipelines : recon[p].pc = "returned" /\ Len(recon[p].pandemicRecords) = 1
  /\ \E d, e \in pandemics :
       /\ d.id # e.id /\ d.region = e.region /\ d.diseaseName = e.diseaseName
       /\ d.date = e.date

\* invocation p ends the save of a changed existing document without error
Merged(p) ==
  /\ Wrote(p)
  /\ recon[p].existing # NoDoc
  /\ ~recon'[p].errored

\* C12: a merge sets activeCases and newCases of the document to the maximum
\* of the stored value and the observation's estimate (the stored value when
\* the observation has none): they never decrease, are never summed, and the
\* document stays the only one of its disease in the window; so estimates of
\* 50 and then 80, 3 hours apart, leave one document with activeCases 80.
C12_MergeTakesMaximum ==
  [][/\ \A d \in pandemics, e \in pandemics' :
          d.id = e.id => (e.activeCases >= d.activeCases /\ e.newCases >= d.newCases)
     /\ \A p \in Pipelines : Merged(p) =>
          LET obs == Head(recon[p].todo)
          IN /\ \A d \in pandemics, e \in pandemics' :
                  (d.id = recon[p].existing.id /\ e.id = d.id) =>
                    /\ e.activeCases =
                         Max(d.activeCases,
                             IF obs.activeCases # 0 THEN obs.activeCases ELSE d.activeCases)
                    /\ e.newCases =
                         Max(d.newCases,
                             IF obs.newCasesLast24h # 0 THEN obs.newCasesLast24h
                             ELSE d.newCases)
             /\ Cardinality({e \in pandemics' :
                               /\ e.region = recon[p].region
                               /\ e.diseaseName = obs.diseaseName
                               /\ now - e.date <= DEDUP_HOURS}) = 1]_vars

\* Mumbai's only Influenza document was inserted with an estimate of 50 and
\* merged 3 hours later with an estimate of 80: it has activeCases 80
C12_Witness ==
  /\ \E p \in Pipelines :
       /\ recon[p].pc = "returned" /\ ~recon[p].errored
       /\ recon[p].region = "Mumbai" /\ recon[p].pandemicRecords = <<>>
  /\ \E d \in pandemics :
       /\ d.region = "Mumbai" /\ d.diseaseName = "Influenza"
       /\ d.activeCases = 80 /\ d.recovered = 10
       /\ now - d.date = 3
       /\ \A e \in pandemics :
            (e.region = d.region /\ e.diseaseName = d.diseaseName) => e = d

\* C13: reconciling the same observation a second time within the 24-hour
\* window leaves the stored record exactly as the first reconciliation left it.
C13_MergeIdempotent ==
  (trial.pc = "second" /\ trial.a = trial.b) => trial.ab = trial.one

\* the same observation reconciled twice, and the record changed the second time
C13_Witness ==
  /\ trial.pc = "second"
  /\ trial.a = trial.b
  /\ trial.ab # trial.one
  /\ trial.ab.requiredMedicines # trial.one.requiredMedicines

SecondSaved ==
  /\ updateOf(trial.one, trial.one, trial.b).ok
  /\ updateOf(trial.two, trial.two, trial.a).ok

Medicines(doc) == {doc.requiredMedicines[i] : i \in 1..Len(doc.requiredMedicines)}

C15_NoDuplicateMedicines ==
  [][/\ \A d \in pandemics' : Distinct(d.requiredMedicines) = d.requiredMedicines
     /\ \A p \in Pipelines : Merged(p) =>
          \A d \in pandemics, e \in pandemics' :
            (d.id = recon[p].existing.id /\ e.id = d.id) =>
              Medicines(e) = Medicines(d) \cup Medicines([requiredMedicines |->
                                             Head(recon[p].todo).requiredMedicines])]_vars

\* a record inserted by a reconciliation that returned it, holding a medicine twice
C15_Witness ==
  \E p \in Pipelines, d \in pandemics :
    /\ recon[p].pc = "returned"
    /\ ~recon[p].errored
    /\ \E i \in 1..Len(recon[p].pandemicRecords) : recon[p].pandemicRecords[i] = d.id
    /\ Len(d.requiredMedicines) = 2
    /\ d.requiredMedicines[1] = d.requiredMedicines[2]

\* C16: a document leaves the collection only in the step of a reconciliation
\* that had no detection to process, and only if it is of the reconciled
\* location, of source 'basic-analysis' and dated more than 7 days ago;
\* documents of source 'gemini-ai' or 'system' never leave it.
C16_PurgeRestricted ==
  [][\A d \in pandemics :
       (\A e \in pandemics' : e.id # d.id) =>
         /\ d.source = "basic-analysis"
         /\ d.source \notin {"gemini-ai", "system"}
         /\ now - d.date > PURGE_HOURS
         /\ \E p \in Pipelines :
              /\ recon[p].pc = "purge"
              /\ recon'[p].pc = "returned"
              /\ recon[p].surge >= SURGE_THRESHOLD
              /\ recon[p].todo = <<>>
              /\ recon[p].pandemicRecords = <<>>
              /\ d.region = recon[p].region]_vars

\* Delhi's reconciliation without detections has removed Delhi's old
\* fallback-generated document and nothing else
C16_Witness ==
  /\ \E p \in Pipelines : recon[p].pc = "returned" /\ recon[p].region = "Delhi"
  /\ now = 0
  /\ pandemics = {d \in LegacyData : d.id # 1}

\* C17: a reconciliation called with a risk score below 40 returns at once:
\* it does not call the reasoning service and no document is inserted,
\* changed or deleted by it.
C17_BelowThresholdNoReconciliation ==
  /\ [](\A p \in Pipelines :
          (recon[p].pc # "idle" /\ recon[p].surge < SURGE_THRESHOLD) =>
            /\ recon[p].pc = "returned"
            /\ ~recon[p].asked
            /\ ~recon[p].errored
            /\ recon[p].pandemicRecords = <<>>)
  /\ [][\A p \in Pipelines :
          (recon'[p] # recon[p] /\ recon'[p].pc # "idle"
             /\ recon'[p].surge < SURGE_THRESHOLD) =>
            (pandemics' = pandemics /\ nextId' = nextId)]_vars

\* a call with score 30 has returned, later in the run, and the collection
\* still holds every fallback-generated document, all now older than 7 days
C17_Witness ==
  /\ now > 0
  /\ \A d \in LegacyData : d.date < now - PURGE_HOURS
  /\ pandemics = LegacyData
  /\ \E p \in Pipelines :
       /\ recon[p].pc = "returned"
       /\ recon[p].surge = 30
       /\ recon[p].region = "Delhi"

Scored == scored.pc \in {"scored", "saved", "failed"}

\* C19: the score of every feature record lies in 0..100 and is the same
\* whenever the same record is scored; scoring changes no store and starts no
\* call; every Prediction persisted has surgeProbability in 0..100 (and save()
\* never rejects one for its score).
C19_ScorerPureAndBounded ==
  /\ [](Scored => /\ scored.surgeProbability \in 0..100
                  /\ scored.surgeProbability = calculateSurgeProbability(scored.features))
  /\ [](\A d, e \in predictions :
          d.inputSnapshot = e.inputSnapshot => d.surgeProbability = e.surgeProbability)
  /\ [](\A d \in predictions : d.surgeProbability \in 0..100)
  /\ [](scored.pc # "failed")
  /\ [][(scored.pc = "built" /\ scored'.pc = "scored") =>
          (/\ UNCHANGED <<readingVars, retry, outbreakVars, trial, predictions>>
           /\ scored'.features = scored.features)]_vars

\* the same readings were scored at two times and both Predictions are stored
\* with the same score
C19_Witness ==
  /\ scored.pc = "saved"
  /\ \E d, e \in predictions :
       /\ d.date < e.date
       /\ d.inputSnapshot = e.inputSnapshot
       /\ d.inputSnapshot = scored.features
       /\ d.surgeProbability = e.surgeProbability
       /\ d.surgeProbability = 95

Clamp(x, lo, hi) == IF x < lo THEN lo ELSE IF x > hi THEN hi ELSE x

pollutantTier(f) ==
  CHOOSE t \in {0, 5, 15, 25} :
    /\ t = 25 <=> f.aqi > 150
    /\ t = 15 <=> (f.aqi > 100 /\ ~(f.aqi > 150))
    /\ t = 5 <=> (f.aqi > 50 /\ ~(f.aqi > 100))

\* C20: the score is clamp(20 + pollutantTier + heat + humidity + rain +
\* admissions + festival, 0, 100) with strict thresholds: tier 25 above 150,
\* 15 above 100, 5 above 50; heat 15 above 35; humidity 10 above 80; rain 5
\* above 5; admissions 20 when the average exceeds 1.2 times the baseline;
\* festival multiplier*10 when an event is active. For index 180, 22 degrees,
\* humidity 40, no event, no rain above 5 and admissions not above 1.2 times
\* the baseline it is 45.
C20_ScoreFormula ==
  Scored =>
    LET f == scored.features
        heat == IF f.temperature > 35 THEN 15 ELSE 0
        humidity == IF f.humidity > 80 THEN 10 ELSE 0
        rain == IF f.precipitation > 5 THEN 5 ELSE 0
        admissions == IF 5 * f.admissionsLast7dAvg > 6 * f.baselineAdmissions THEN 20 ELSE 0
        festival == IF f.isFestival THEN f.festivalMultiplier * 10 ELSE 0
    IN /\ scored.surgeProbability =
            Clamp(20 + pollutantTier(f) + heat + humidity + rain + admissions + festival,
                  0, 100)
       /\ (/\ f.aqi = 180 /\ f.temperature = 22 /\ f.humidity = 40
           /\ ~(f.precipitation > 5) /\ ~f.isFestival /\ admissions = 0)
            => scored.surgeProbability = 45

\* Delhi's Prediction for index 180, 22 degrees, humidity 40, admissions at
\* the baseline is stored with score 45
C20_Witness ==
  /\ scored.pc = "saved"
  /\ scored.features.aqi = 180
  /\ scored.features.temperature = 22
  /\ scored.features.humidity = 40
  /\ scored.features.precipitation = 0
  /\ scored.features.admissionsLast7dAvg = scored.features.baselineAdmissions
  /\ ~scored.features.isFestival
  /\ \E d \in predictions :
       /\ d.region = "Delhi"
       /\ d.inputSnapshot = scored.features
       /\ d.surgeProbability = 45

(* ------------------------------ C21 ----------------------------------- *)
\* C21: when generatePrediction finds no weather reading and the forced
\* weather fetch fails, the invocation throws: no Prediction is inserted, no
\* reading is written, no weather is made up, no outbreak record is created,
\* and the request ends with an error (POST /predict and the advice routes
\* at once; GET /latest when it finds no weather to answer with)
C21_NoWeatherIsFatal ==
  [][(req'.error = "weather" /\ req'.pc # "idle") =>
       /\ req.pc = "needWeather" \/ req.error = "weather"
       /\ predictions' = predictions
       /\ readings' = readings
       /\ pandemics' = pandemics
       /\ req'.weather = NoReading
       /\ req'.inserted = 0
       /\ req'.status \in {0, 500}
       /\ req'.pc \in {"failed", "respond"}
       /\ req'.pc = "respond" => req'.route = "latest"
       /\ req.pc = "respond" => req'.pc = "failed"]_vars

C21_Witness ==
  /\ req.pc = "failed"
  /\ req.route = "predict"
  /\ req.error = "weather"
  /\ req.weatherTried
  /\ req.status = 500
  /\ getLatest(readings["weather"], req.city) = {NoReading}
  /\ predictions = {}
  /\ pandemics = {}

C23_AqiNeverFatal ==
  [][/\ (req'.route = "predict" /\ req'.pc = "failed") =>
          /\ req'.error \in {"weather", "agent"}
          /\ req'.error = "weather" => req'.weather = NoReading
          /\ req'.error = "agent" => req.pc = "agent"
     /\ (req.route = "predict" /\ req.pc \in {"routeAqi", "needAqi"}) =>
          /\ req'.pc \notin {"failed", "done"}
          /\ req'.error = ""
     /\ (req'.route = "predict" /\ req'.pc = "done") =>
          /\ req'.status = 200
          /\ req'.inserted # 0
          /\ \E d \in predictions' : d.region = req'.city /\ d.date = req'.date]_vars

C23_Witness ==
  /\ req.pc = "done"
  /\ req.route = "predict"
  /\ req.status = 200
  /\ req.aqiTried
  /\ ~req.weatherTried
  /\ req.aqi.source = "estimated"
  /\ readings["aqi"] = EmptyBag
  /\ \E d \in predictions : d.region = req.city /\ d.date = req.date /\ d.id = req.inserted

(* ------------------------------ C24 ----------------------------------- *)
\* C24: an answer that does not parse is no error: runOperationsAgent
\* returns the raw text as summary with confidence 'low' and the other
\* fields defaulted, the lookups fall back to their defaults, a detection
\* that gives nothing creates no record, and in each case generatePrediction
\* goes on and inserts its Prediction; only a failed agent call throws
C24_ParseFailureNotFatal ==
  [][/\ req.pc = "agent" =>
          /\ req'.error = "agent" <=> req'.agent = "failed"
          /\ req'.agent = "text" =>
               /\ req'.pc = "lookups"
               /\ parseAgent(req'.agent).summary = "rawText"
               /\ parseAgent(req'.agent).confidence = "low"
               /\ parseAgent(req'.agent).suggestedActions = <<>>
     /\ (req.pc = "lookups" /\ req' # req) =>
          /\ req'.pc = "reconcile"
          /\ req'.lookups \in {"json", "text"}
          /\ req'.error = ""
     /\ (req.pc = "reconcile" /\ req' # req) =>
          /\ req'.pc = "save"
          /\ req'.error = ""
     /\ (req.pc = "reconcile" /\ recon[1].pc = "idle" /\ recon' # recon
           /\ recon'[1].todo = <<>>) => pandemics' = pandemics
     /\ (req.pc = "save" /\ req' # req) =>
          /\ req'.error = ""
          /\ req'.inserted # 0
          /\ Cardinality(predictions') = Cardinality(predictions) + 1]_vars

C24_Witness ==
  /\ req.pc = "done"
  /\ req.route = "predict"
  /\ req.agent = "text"
  /\ req.lookups = "text"
  /\ req.surge >= SURGE_THRESHOLD
  /\ pandemics = {}
  /\ req.inserted # 0
  /\ \E d \in predictions : d.region = req.city /\ d.surgeProbability = req.surge

(* ------------------------------ C25 ----------------------------------- *)
\* C25: Predictions are only inserted: every step keeps the documents there
\* are; a generatePrediction that returns has inserted exactly one (its
\* own), one that throws has inserted none, and nothing else inserts;
\* getLatestPrediction gives a Prediction of the location whose date no
\* other Prediction of the location exceeds, or null when there is none
C25_InsertOnlyAndLatest ==
  [][/\ predictions \subseteq predictions'
     /\ predictions' # predictions =>
          /\ req.pc = "save"
          /\ req'.pc \in {"done", "respond"}
          /\ req'.error = ""
          /\ Cardinality(predictions') = Cardinality(predictions) + 1
          /\ \E d \in predictions' \ predictions :
               /\ d.region = req.city
               /\ d.date = req.date
               /\ d.surgeProbability = req.surge
               /\ d.id = req'.inserted
     /\ (req.pc = "save" /\ req' # req) => predictions' # predictions
     /\ (req'.error # "" /\ req'.pc # "idle") => req'.inserted = 0
     /\ (req.pc = "idle" /\ req'.route \in {"latest", "advice"}) =>
          LET mine == {d \in predictions : d.region = req'.city}
          IN /\ req'.found <=> mine # {}
             /\ req'.found =>
                  /\ \E d \in mine : d.date = req'.foundDate
                  /\ \A d \in mine : d.date <= req'.foundDate]_vars

\* two Predictions of one city with different dates, and a lookup that has
\* returned the later one
C25_Witness ==
  /\ req.route = "latest"
  /\ req.found
  /\ \E d, e \in predictions :
       /\ d.region = req.city
       /\ e.region = req.city
       /\ d.date < e.date
       /\ e.date = req.foundDate

(* ------------------------------ C26 ----------------------------------- *)
\* C26: GET /latest calls generatePrediction exactly when the city has no
\* Prediction or its latest one is more than 6 hours old; otherwise the
\* stored one is answered with: no fetch from a provider, no call of the
\* agent, no write to a store
C26_RegenerateOnlyWhenStale ==
  [][/\ (req.pc = "idle" /\ req'.route = "latest") =>
          LET mine == {d \in predictions : d.region = req'.city}
              stale == \/ mine = {}
                       \/ \A d \in mine : now - d.date > FRESH_HOURS
          IN /\ req'.found <=> mine # {}
             /\ req'.date = now
             /\ req'.pc = (IF stale THEN "routeWeather" ELSE "respond")
     /\ (req'.route = "latest" /\ req'.found
           /\ req'.date - req'.foundDate <= FRESH_HOURS) =>
          /\ readings' = readings
          /\ predictions' = predictions
          /\ pandemics' = pandemics
          /\ recon' = recon
          /\ ~req'.aqiTried /\ ~req'.weatherTried /\ ~req'.generated
          /\ req'.agent = "" /\ req'.lookups = "" /\ req'.inserted = 0
          /\ req'.pc \in {"respond", "done"}
          /\ req'.pc = "done" => req'.status = 200
     /\ (req'.route = "latest" /\ req'.pc \in {"respond", "done", "failed"}
           /\ (~req'.found \/ req'.date - req'.foundDate > FRESH_HOURS)) =>
          /\ req'.generated
          /\ req'.weatherTried /\ req'.aqiTried]_vars

\* a stored Prediction exactly 6 hours old was answered with
C26_Witness ==
  /\ req.route = "latest"
  /\ req.pc = "done"
  /\ req.status = 200
  /\ req.found
  /\ req.date - req.foundDate = FRESH_HOURS
  /\ ~req.generated

(* ------------------------------ C27 ----------------------------------- *)
\* r is num / den rounded to a nearest integer
IsRounded(r, num, den) == 2 * den * r - 2 * num \in (0 - den)..den

\* C27: for every score in 0..100 and every total of active cases,
\* calculatePatientCountFromPandemics(region, 100, score) is the greater of
\* the baseline and round(baseline * (1 + score/100 * 0.5)) + round(0.3 *
\* total), hence at least the baseline, and so is the estimatedPatientCount
\* of every Prediction inserted with it
C27_CountAtLeastBaseline ==
  /\ counted.pc = "returned" =>
       /\ counted.result >= BASELINE_PATIENTS
       /\ \E r \in BASELINE_PATIENTS..(2 * BASELINE_PATIENTS),
             q \in 0..counted.totalActiveCases :
            /\ IsRounded(r, BASELINE_PATIENTS * (200 + counted.surgeProbability), 200)
            /\ IsRounded(q, 3 * counted.totalActiveCases, 10)
            /\ counted.result = Max(BASELINE_PATIENTS, r + q)
  /\ \A d \in predictions :
       "estimatedPatientCount" \in DOMAIN d => d.estimatedPatientCount >= BASELINE_PATIENTS
  /\ req.pc = "save" =>
       \E r \in BASELINE_PATIENTS..(2 * BASELINE_PATIENTS), q \in 0..200 :
         /\ IsRounded(r, BASELINE_PATIENTS * (200 + req.surge), 200)
         /\ IsRounded(q, 3 * getTotalActiveCases(req.city, now), 10)
         /\ req.count = Max(BASELINE_PATIENTS, r + q)

C27_Witness ==
  /\ counted.pc = "returned"
  /\ counted.surgeProbability = 55
  /\ counted.totalActiveCases = 5
  /\ counted.result = 129

(* ------------------------------ C28 ----------------------------------- *)
\* C28: with refreshes of a location in flight side by side, every latest
\* lookup returns a stored reading of the location whose timestamp none of
\* its stored readings exceeds, whichever save finished first, and a save
\* leaves every reading that is already stored as it is
C28_LatestByTimestampUnderRaces ==
  [][/\ \A c \in CallIds :
          (calls[c].pc = "done" /\ calls'[c].pc = "looked") =>
            LET stored == {d \in BagToSet(readings[calls[c].sig]) :
                             d.location = calls[c].loc}
            IN IF stored = {} \/ calls[c].loc = ""
               THEN calls'[c].latest = NoReading
               ELSE /\ calls'[c].latest \in stored
                    /\ \A d \in stored : d.timestamp <= calls'[c].latest.timestamp
     /\ \A s \in Signals : \A d \in BagToSet(readings[s]) :
          CopiesIn(d, readings'[s]) >= CopiesIn(d, readings[s])]_vars

\* a caller saved its reading while a reading with a later timestamp was
\* stored by another, and its lookup returned the later one
C28_Witness ==
  \E c \in CallIds :
    /\ calls[c].pc = "looked"
    /\ calls[c].wrote = 1
    /\ BagIn(calls[c].result, readings[calls[c].sig])
    /\ BagIn(calls[c].latest, readings[calls[c].sig])
    /\ calls[c].latest.location = calls[c].result.location
    /\ calls[c].result.timestamp < calls[c].latest.timestamp

(* ------------------------------ C29 ----------------------------------- *)
\* C29: POST /predict tries a forced refresh of both signals before
\* generatePrediction runs, also when the AQI refresh has failed, so that
\* no Prediction of the request is built from a stored weather reading
\* without a weather fetch tried in the request
C29_BothRefreshesTried ==
  (req.route = "predict" /\ req.inserted # 0) => (req.aqiTried /\ req.weatherTried)

\* the AQI refresh failed, no weather fetch was tried, and the Prediction
\* was built from a weather reading stored hours before
C29_Witness ==
  /\ req.route = "predict"
  /\ req.pc = "done"
  /\ req.inserted # 0
  /\ req.aqiTried
  /\ ~req.weatherTried
  /\ req.weather.timestamp < now
  /\ \E d \in predictions :
       /\ d.region = req.city /\ d.date = req.date /\ d.id = req.inserted
       /\ d.inputSnapshot.temperature = req.weather.temperature

(* ------------------------------ C30 ----------------------------------- *)
\* C30: a refresh that ends in an error has written nothing: the step in
\* which fetchAndStoreAqi or fetchAndStoreWeather throws leaves both
\* collections as they are, the call has no write to its name, and every
\* latest lookup gives after it what it gave before, stale readings
\* included; only a call with a city name and an answered provider call
\* reaches reading.save()
C30_FailedRefreshWritesNothing ==
  [][\A c \in CallIds :
       /\ (calls'[c].pc = "failed" /\ calls[c].pc # "failed") =>
            /\ calls[c].pc \in {"idle", "cache", "fetch", "fetch2"}
            /\ readings' = readings
            /\ calls'[c].wrote = 0
            /\ \A s \in Signals, l \in Locations :
                 getLatest(readings'[s], l) = getLatest(readings[s], l)
       /\ calls'[c].pc = "failed" => calls'[c].wrote = 0
       /\ calls'[c].pc = "save" =>
            /\ calls'[c].loc # ""
            /\ calls'[c].nCalls >= 1]_vars

\* the provider was called and the refresh failed; the reading stored six
\* or more hours ago is still what a latest lookup returns
C30_Witness ==
  \E c \in CallIds :
    /\ calls[c].pc = "failed"
    /\ calls[c].nCalls >= 1
    /\ calls[c].wrote = 0
    /\ \E d \in getLatest(readings[calls[c].sig], calls[c].loc) :
         /\ d # NoReading
         /\ now - d.timestamp >= FRESH_HOURS

====
